---------------------------- MODULE Spec2Model ----------------------------
(***************************************************************************)
(* Model of the PRIMORDIAL simulation core: the CellStorage entity store   *)
(* (double-buffered array-of-structs, free-list recycling), the            *)
(* SpatialGrid, the SpeciesTracker, the Environment and the Engine tick.   *)
(*                                                                         *)
(* Floating point values are carried as fixed-point integers:              *)
(*   genes            in hundredths       (GS = 100  is 1.0)               *)
(*   energy, mass     in thousandths      (ES = 1000 is 1.0)               *)
(*   x, y, vx, vy     in tenths           (PS = 10   is 1.0)               *)
(*   dt               in milliseconds                                      *)
(* Products are rescaled with Rs (rounding toward zero), which stands for  *)
(* the rounding of the Float32Array stores.                                *)
(***************************************************************************)
EXTENDS Integers, Sequences, FiniteSets, TLC

VARIABLES
    maxCells,        \* CellStorage.maxCells
    worldSize,       \* Engine.worldSize (world units)
    cells,           \* CellStorage.cells      : slot -> cell record
    nextCells,       \* CellStorage.nextCells  : slot -> cell record
    generations,     \* CellStorage.generations
    isActive,        \* CellStorage.isActive
    visualColors,    \* CellStorage.visualColors : slot -> <<r, g, b, glow>> (tenths)
    allianceId,      \* CellStorage.allianceId
    cooldowns,       \* CellStorage.cooldowns
    freeIndices,     \* CellStorage.freeIndices (a stack, top = last)
    activeCount,     \* CellStorage.activeCount
    friction,        \* CellStorage.friction (hundredths)
    globalMutationRate, \* CellStorage.globalMutationRate (hundredths)
    foodAbundance,   \* Engine.foodAbundance (hundredths)
    frameCount,      \* Engine.frameCount
    totalBirths,     \* Engine.totalBirths
    totalDeaths,     \* Engine.totalDeaths
    gridCell,        \* SpatialGrid content: the bucket of each slot, the flat array
    speciesList,     \* SpeciesTracker.speciesList
    nextId,          \* SpeciesTracker.nextId
    rng,             \* state of the Math.random generator
    events,          \* events handed to Engine.onEvent by the last handler
    lastOp,          \* the last host call, its arguments and what it returned
    passIds,         \* history: slot -> id identify() returned at the last species
                     \*          pass for the agent still in the slot (0: none)
    issued,          \* history: ids handed out by SpeciesTracker, in order
    epoch,           \* history: slot -> number of agents spawned into it so far
    hostOps,         \* number of host calls a specification bounds, made so far
    isWorkerReady,   \* main.ts isWorkerReady
    isSimulationRunning, \* main.ts isSimulationRunning
    followingIdx,    \* main.ts followingIdx (-1: null)
    inspectedCell,   \* main.ts inspectedCell: the idx of the cell (-1: null)
    toWorker,        \* messages posted to the worker and not yet handled, in order
    toMain,          \* messages posted by the worker and not yet handled, in order
    engine,          \* simWorker.ts engine: "undefined" until the init message
    threw,           \* history: a handler of the worker has read the undefined engine
    posted           \* history: number of messages the main thread has posted

vars == << maxCells, worldSize, cells, nextCells, generations, isActive,
           visualColors, allianceId, cooldowns, freeIndices, activeCount,
           friction, globalMutationRate, foodAbundance, frameCount,
           totalBirths, totalDeaths, gridCell, speciesList, nextId, rng,
           events, lastOp, passIds, issued, epoch, hostOps,
           isWorkerReady, isSimulationRunning, followingIdx, inspectedCell,
           toWorker, toMain, engine, threw, posted >>

\* the state of the page and of its worker
pageVars == << isWorkerReady, isSimulationRunning, followingIdx, inspectedCell,
              toWorker, toMain, engine, threw, posted >>

----------------------------------------------------------------------------
(* Fixed-point scales *)

GS == 100
ES == 1000
PS == 10

(* Bounds of the model *)

MaxCells == 4          \* capacity of the store in the short-horizon specifications
MaxTicks == 3          \* ticks explored by the short-horizon specification
MaxHostOps == 1        \* host spawn / remove / reproduce calls explored after seeding
MaxTrackerCalls == 6   \* calls explored on a tracker driven on its own
MaxFrames == 31        \* frames explored by the long-horizon specification
SeedAfter == 27        \* frames the long-horizon runs let pass before seeding
ColonyCells == 24      \* capacity of the store in the long-horizon specification
FusionFrames == 121    \* frames explored by the specification of the alliance pass
FusionCells == 48      \* capacity of the store in those runs
ReproFrames == 40      \* frames explored by the specification of reproduction
ReproCells == 3        \* capacity of the store in those runs
ArchSpawns == 2        \* spawn messages in the specification of the visual classes
SettingsCalls == 2     \* applySettings messages in the specification of the settings
SwarmFrames == 31      \* frames explored by the specification of the sprawling herd
SwarmCells == 17       \* capacity of the store in those runs
PactCells == 40
PactAfter == 57
PactFrames == 67
EdgeCells == 4
EdgeFrames == 6
MaxPosted == 7       \* messages the main thread posts in a run of the page

----------------------------------------------------------------------------
(* Arithmetic helpers *)

Min(a, b) == IF a < b THEN a ELSE b
Max(a, b) == IF a > b THEN a ELSE b
Abs(a) == IF a < 0 THEN -a ELSE a

\* floor(sqrt(n)) by bisection on [lo, hi]
RECURSIVE SqrtBetween(_, _, _)
SqrtBetween(n, lo, hi) ==
    IF lo >= hi THEN lo
    ELSE IF ((lo + hi + 1) \div 2) * ((lo + hi + 1) \div 2) <= n
         THEN SqrtBetween(n, (lo + hi + 1) \div 2, hi)
         ELSE SqrtBetween(n, lo, ((lo + hi + 1) \div 2) - 1)

ISqrt(n) == IF n <= 0 THEN 0 ELSE SqrtBetween(n, 0, Min(n, 46340))

\* 2 * atanh(z) for z in thousandths, by its series up to z^5: ln f for
\* z = (f-1)/(f+1)
LnSeries(z) ==
    2 * (z + ((z * z * z) \div (ES * ES)) \div 3
           + ((((z * z * z) \div (ES * ES)) * z * z) \div (ES * ES)) \div 5)

\* Math.log of a positive value m (thousandths), in thousandths:
\* m = f * 2^k with f in [1,2)
RECURSIVE LnNorm(_, _)
LnNorm(m, k) ==
    IF m >= 2 * ES THEN LnNorm(m \div 2, k + 1)
    ELSE IF m < ES THEN LnNorm(m * 2, k - 1)
    ELSE k * 693 + LnSeries(((m - ES) * ES) \div (m + ES))

Ln(m) == LnNorm(m, 0)

\* Math.ceil(Math.log10(mass) * 3) for mass > 0 (thousandths)
Log10Level(m) == -((-(3 * Ln(m) * 1000)) \div 2302585)

\* s[lo] + ... + s[hi], added by halves
RECURSIVE SumFrom(_, _, _)
SumFrom(s, lo, hi) ==
    IF lo > hi THEN 0
    ELSE IF lo = hi THEN s[lo]
    ELSE SumFrom(s, lo, (lo + hi) \div 2) + SumFrom(s, (lo + hi) \div 2 + 1, hi)

SeqSum(s) == SumFrom(s, 1, Len(s))

\* a / b rounded toward zero: the rescaling of a fixed-point product
Rs(a, b) == IF a >= 0 THEN a \div b ELSE -((-a) \div b)

\* Math.floor(a / b) for b > 0
Floor(a, b) == a \div b

----------------------------------------------------------------------------
(* Math.random: a generator with an unknown seed.  Each call advances the  *)
(* state; the value returned is rng/8, here in thousandths.                *)

NextRng(r) == (5 * r + 3) % 8
RandomValue(r) == r * 125

----------------------------------------------------------------------------
(* Environment (solar, poison and barrier maps sampled by world position)  *)

ENV_RESOLUTION == 64
WORLD_SIZE == 2000

\* 1000*sin(10k/64), 1000*cos(10k/64), 1000*sin(20k/64) for k = 0..63
SIN10 ==
    << 0, 156, 307, 452, 585, 704, 806, 888, 949, 986, 1000, 989, 954, 896, 816, 716,
       598, 467, 323, 172, 17, -139, -292, -437, -572, -692, -796, -881, -944, -984, -1000, -991,
       -959, -903, -825, -727, -612, -481, -339, -188, -33, 123, 276, 422, 558, 680, 786, 873,
       938, 981, 999, 993, 963, 910, 835, 739, 625, 496, 354, 205, 50, -106, -260, -407 >>
COS10 ==
    << 1000, 988, 952, 892, 811, 710, 592, 459, 315, 164, 8, -147, -300, -444, -578, -698,
       -801, -885, -946, -985, -1000, -990, -957, -900, -821, -722, -605, -474, -331, -180, -25, 131,
       284, 429, 565, 686, 791, 877, 941, 982, 999, 992, 961, 907, 830, 733, 618, 488,
       347, 196, 41, -115, -268, -414, -551, -674, -781, -869, -935, -979, -999, -994, -966, -914 >>
SIN20 ==
    << 0, 307, 585, 806, 949, 1000, 954, 816, 598, 323, 17, -292, -572, -796, -944, -1000,
       -959, -825, -612, -339, -33, 276, 558, 786, 938, 999, 963, 835, 625, 354, 50, -260,
       -544, -776, -932, -998, -968, -844, -638, -370, -66, 244, 530, 765, 926, 997, 972, 852,
       650, 385, 83, -228, -516, -754, -920, -996, -976, -861, -663, -400, -99, 211, 502, 743 >>

\* the clamp of generateMaps
Clamp01(v) == Max(0, Min(1000, v))

\* Environment.generateMaps: the three maps at map cell (ex, ey), 0-based
solarMap(ex, ey) == Clamp01((Rs(SIN10[ex + 1] * COS10[ey + 1], 1000) + 1500) \div 3)

PoisonOf(pValue) == IF pValue > 850 THEN (pValue - 850) * 5 ELSE 0
poisonMap(ex, ey) == PoisonOf((Rs(SIN20[ex + 1] * SIN20[ey + 1], 1000) + 1000) \div 2)

barriers(ex, ey) == ex > 30 /\ ex < 35 /\ ey > 10 /\ ey < 50

\* map cell of a world coordinate (tenths) in a world of size w
EnvCell(p, w) == Floor(p * ENV_RESOLUTION, w * PS)
InEnv(ex, ey) == ex >= 0 /\ ex < ENV_RESOLUTION /\ ey >= 0 /\ ey < ENV_RESOLUTION

SolarAt(ex, ey) == IF InEnv(ex, ey) THEN solarMap(ex, ey) ELSE 0
PoisonAt(ex, ey) == IF InEnv(ex, ey) THEN poisonMap(ex, ey) ELSE 0
BlockedAt(ex, ey) == IF InEnv(ex, ey) THEN barriers(ex, ey) ELSE TRUE

getSolarIntensity(px, py, w) == SolarAt(EnvCell(px, w), EnvCell(py, w))
getPoison(px, py, w) == PoisonAt(EnvCell(px, w), EnvCell(py, w))
isBlocked(px, py, w) == BlockedAt(EnvCell(px, w), EnvCell(py, w))

----------------------------------------------------------------------------
(* CellStorage                                                             *)
(*                                                                         *)
(* A cell is the 16-float stride of the source:                            *)
(*   0: x, 1: y, 2: vx, 3: vy, 4: energy, 5: archIdx, 6: mass,             *)
(*   7: speciesId/metadata, 8-15: genome                                   *)
(* genome[k+1] is gene k of the source.                                    *)

gSPD == 1
gAGG == 2
gPHO == 3
gSIZ == 4
gDEF == 5
gVIS == 6
gMUT == 7
gLIF == 8

Slots == 0 .. (maxCells - 1)

ZeroGenome == << 0, 0, 0, 0, 0, 0, 0, 0 >>

\* a stride of a fresh (or zero-filled) Float32Array
ZeroCell == [ x |-> 0, y |-> 0, vx |-> 0, vy |-> 0, energy |-> 0,
              archIdx |-> 0, mass |-> 0, meta |-> 0, genome |-> ZeroGenome ]

ZeroColor == << 0, 0, 0, 0 >>

\* CellStorage.init: the free list holds maxCells-1 .. 0, so that 0 is popped first
InitFreeIndices(n) == [ k \in 1 .. n |-> n - k ]

\* the storage (and the engine fields a handler updates on the way) as one value;
\* .ret carries what the last storage call returned, .deaths the frameDeaths
\* counter of Engine.update
Store == [ cells |-> cells, nextCells |-> nextCells, generations |-> generations,
           isActive |-> isActive, visualColors |-> visualColors,
           allianceId |-> allianceId, cooldowns |-> cooldowns,
           freeIndices |-> freeIndices, activeCount |-> activeCount,
           rng |-> rng, totalBirths |-> totalBirths, grid |-> gridCell,
           epoch |-> epoch, events |-> << >>, ret |-> -1, deaths |-> 0 ]

\* one "if (gene > maxVal) { maxVal = gene; archIdx = idx; }" of spawn, on
\* best = << maxVal, archIdx >>
ArchPick(best, gene, idx) == IF gene > best[1] THEN << gene, idx >> ELSE best

\* the visual class of a genome (spawn, lines 95-103): archIdx
Archetype(genome) ==
    ArchPick(ArchPick(ArchPick(ArchPick(<< 70, 0 >>, genome[gAGG], 1),
                               genome[gPHO], 2),
                      genome[gDEF], 3),
             genome[gSPD], 4)[2]

\* r, g, b, glow of a visual class, in tenths (spawn, lines 105-108)
ArchColor(archIdx) ==
    CASE archIdx = 1 -> << 10, 0, 2, 10 >>
      [] archIdx = 2 -> << 2, 10, 0, 10 >>
      [] archIdx = 3 -> << 0, 8, 10, 10 >>
      [] archIdx = 4 -> << 10, 10, 10, 10 >>
      [] OTHER -> << 4, 4, 4, 0 >>

\* the fields spawn writes into one buffer's stride; offset 7 is not written
SpawnedCell(old, x, y, genome, archIdx) ==
    [ old EXCEPT !.x = x, !.y = y, !.vx = 0, !.vy = 0,
                 !.energy = 100 * ES, !.mass = 1 * ES,
                 !.genome = genome, !.archIdx = archIdx ]

\* A spawnInto that forgets to count the new cell (what the count would be
\* without line 86).
spawnUncounted(st, idx, x, y, genome, archIdx) ==
    [ st EXCEPT
        !.freeIndices = SubSeq(st.freeIndices, 1, Len(st.freeIndices) - 1),
        !.cells[idx] = SpawnedCell(st.cells[idx], x, y, genome, archIdx),
        !.nextCells[idx] = SpawnedCell(st.nextCells[idx], x, y, genome, archIdx),
        !.generations[idx] = 1,
        !.isActive[idx] = 1,
        !.allianceId[idx] = -1,
        !.visualColors[idx] = ArchColor(archIdx),
        !.epoch[idx] = @ + 1,
        !.ret = idx ]

\* spawn, lines 61-118: the writes for the popped index idx
spawnInto(st, idx, x, y, genome, archIdx) ==
    [ st EXCEPT
        !.freeIndices = SubSeq(st.freeIndices, 1, Len(st.freeIndices) - 1),
        !.cells[idx] = SpawnedCell(st.cells[idx], x, y, genome, archIdx),
        !.nextCells[idx] = SpawnedCell(st.nextCells[idx], x, y, genome, archIdx),
        !.generations[idx] = 1,
        !.isActive[idx] = 1,
        !.allianceId[idx] = -1,
        !.activeCount = st.activeCount + 1,
        !.visualColors[idx] = ArchColor(archIdx),
        !.epoch[idx] = @ + 1,
        !.ret = idx ]

\* A spawn without the capacity guard of line 59: with no free index it
\* takes slot 0 over.
spawnOverFull(st, x, y, genome) ==
    spawnInto([ st EXCEPT !.activeCount =
                   IF Len(st.freeIndices) = 0 THEN @ - 1 ELSE @ ],
              IF Len(st.freeIndices) = 0 THEN 0
              ELSE st.freeIndices[Len(st.freeIndices)],
              x, y, genome, Archetype(genome))

\* CellStorage.spawn(x, y, genome); the index (or -1) is left in .ret
spawn(st, x, y, genome) ==
    IF Len(st.freeIndices) = 0 THEN [ st EXCEPT !.ret = -1 ]
    ELSE spawnInto(st, st.freeIndices[Len(st.freeIndices)], x, y, genome,
                   Archetype(genome))

\* A remove without the isActive test of line 122.
removeInactiveToo(st, idx) ==
    IF idx < 0 \/ idx >= maxCells THEN st
    ELSE [ st EXCEPT
             !.isActive[idx] = 0,
             !.freeIndices = Append(st.freeIndices, idx),
             !.activeCount = st.activeCount - 1,
             !.cells[idx] = ZeroCell,
             !.nextCells[idx] = ZeroCell,
             !.visualColors[idx] = ZeroColor,
             !.allianceId[idx] = -1,
             !.cooldowns[idx] = 0 ]

\* CellStorage.remove(idx)
remove(st, idx) ==
    IF idx < 0 \/ idx >= maxCells THEN st
    ELSE IF st.isActive[idx] = 0 THEN st
    ELSE [ st EXCEPT
             !.isActive[idx] = 0,
             !.freeIndices = Append(st.freeIndices, idx),
             !.activeCount = st.activeCount - 1,
             !.cells[idx] = ZeroCell,
             !.nextCells[idx] = ZeroCell,
             !.visualColors[idx] = ZeroColor,
             !.allianceId[idx] = -1,
             !.cooldowns[idx] = 0 ]

getEnergy(st, idx) == st.cells[idx].energy
setEnergy(st, idx, val) ==
    [ st EXCEPT !.cells[idx].energy = val, !.nextCells[idx].energy = val ]
getGenome(st, idx) == st.cells[idx].genome
getX(st, idx) == st.cells[idx].x
getY(st, idx) == st.cells[idx].y

\* Math.random() * 2 - 1, in thousandths
Signed(r) == 2 * RandomValue(r) - 1000

\* the state of the generator after n more calls
RECURSIVE RngAfter(_, _)
RngAfter(r, n) == IF n = 0 THEN r ELSE RngAfter(NextRng(r), n - 1)

\* one gene of the child (reproduce, lines 153-154), drawn in generator state r
MutatedGene(parentGenome, k, r) ==
    Max(0, Min(GS, parentGenome[k]
                   + Rs(Signed(r) * parentGenome[gMUT] * globalMutationRate,
                        1000 * 10 * GS)))

\* reproduce, lines 161-163: the child takes the parent's generation plus one
Born(s1, generation) ==
    IF s1.ret # -1 THEN [ s1 EXCEPT !.generations[s1.ret] = generation ] ELSE s1

\* CellStorage.reproduce(parentIdx): eight draws for the genes, two for the
\* offset, then spawn; the child index (or -1) is left in .ret
reproduce(st, parentIdx) ==
    Born(spawn([ st EXCEPT !.rng = RngAfter(st.rng, 10) ],
               st.cells[parentIdx].x
                 + (Rs(RandomValue(RngAfter(st.rng, 8)) * 10 * PS, 1000) - 5 * PS),
               st.cells[parentIdx].y
                 + (Rs(RandomValue(RngAfter(st.rng, 9)) * 10 * PS, 1000) - 5 * PS),
               [ k \in 1 .. 8 |->
                   MutatedGene(getGenome(st, parentIdx), k, RngAfter(st.rng, k - 1)) ]),
         st.generations[parentIdx] + 1)

\* CellStorage.updatePositions(dt) for one active slot: friction, then the move
Slowed(c) == [ c EXCEPT !.vx = Rs(c.vx * friction, GS), !.vy = Rs(c.vy * friction, GS) ]
Shifted(c, dt) == [ c EXCEPT !.x = c.x + Rs(c.vx * dt, 1000),
                             !.y = c.y + Rs(c.vy * dt, 1000) ]
MovedCell(c, dt) == Shifted(Slowed(c), dt)

\* lines 182-185: nextCells takes x, y, vx, vy of the moved cell
Synced(nc, c) == [ nc EXCEPT !.x = c.x, !.y = c.y, !.vx = c.vx, !.vy = c.vy ]

SyncAll(st) ==
    [ st EXCEPT !.nextCells = [ i \in Slots |->
        IF st.isActive[i] = 1 THEN Synced(st.nextCells[i], st.cells[i])
        ELSE st.nextCells[i] ] ]

updatePositions(st, dt) ==
    SyncAll([ st EXCEPT !.cells = [ i \in Slots |->
        IF st.isActive[i] = 1 THEN MovedCell(st.cells[i], dt) ELSE st.cells[i] ] ])

----------------------------------------------------------------------------
(* SpatialGrid                                                             *)

GRID_RESOLUTION == 100

\* grid coordinate of a world coordinate (tenths)
GridCoord(p) == Floor(p * GRID_RESOLUTION, worldSize * PS)
InGrid(g) == g >= 0 /\ g < GRID_RESOLUTION

\* the bucket (cellIdx) of grid coordinates, -1 outside the grid
BucketOf(gx, gy) == IF InGrid(gx) /\ InGrid(gy) THEN gy * GRID_RESOLUTION + gx ELSE -1

\* the bucket each active cell is filed under; -1: not filed
gridBuckets(cs, act) ==
    [ i \in Slots |->
        IF act[i] = 0 THEN -1 ELSE BucketOf(GridCoord(cs[i].x), GridCoord(cs[i].y)) ]

\* the slots of S in ascending order of key[i] (keys are distinct)
SortBy(S, key) ==
    LET ranked == { << Cardinality({ j \in S : key[j] < key[i] }), i >> : i \in S }
    IN  [ k \in 1 .. Cardinality(S) |-> (CHOOSE p \in ranked : p[1] = k - 1)[2] ]

\* the slots of the flat array whose bucket lies in the rectangle of buckets
InRectangle(grid, gxStart, gxEnd, gyStart, gyEnd) ==
    SelectSeq(grid.grid,
              LAMBDA i : /\ grid.bucket[i] % GRID_RESOLUTION >= gxStart
                         /\ grid.bucket[i] % GRID_RESOLUTION <= gxEnd
                         /\ grid.bucket[i] \div GRID_RESOLUTION >= gyStart
                         /\ grid.bucket[i] \div GRID_RESOLUTION <= gyEnd)

\* SpatialGrid.query(worldX, worldY, radius, callback): the slots handed to the
\* callback, in the order of the calls (rows gy, then columns gx, then filing order)
gridQuery(grid, wx, wy, radius) ==
    InRectangle(grid,
                Max(0, GridCoord(wx - radius)),
                Min(GRID_RESOLUTION - 1, GridCoord(wx + radius)),
                Max(0, GridCoord(wy - radius)),
                Min(GRID_RESOLUTION - 1, GridCoord(wy + radius)))

\* the flat array of filed slots, partitioned by bucket and in ascending slot
\* order within a bucket
Filed(bucket) ==
    [ bucket |-> bucket,
      grid |-> SortBy({ i \in Slots : bucket[i] # -1 },
                      [ i \in Slots |-> bucket[i] * maxCells + i ]) ]

\* SpatialGrid.update
gridUpdate(cs, act) == Filed(gridBuckets(cs, act))

----------------------------------------------------------------------------
(* SpeciesTracker                                                          *)

SIMILARITY_THRESHOLD == 5      \* 0.05, in hundredths

\* the tracker as one value; .ret carries what identify returned
Tracker == [ speciesList |-> speciesList, nextId |-> nextId, issued |-> issued,
             ret |-> -1 ]

\* calculateDifference(dna1, dna2) = sqrt(sumSq)/sqrt(8); the model carries
\* sumSq (in hundredths squared), in which the distance is monotone
calculateDifference(dna1, dna2) ==
    SeqSum([ k \in 1 .. 8 |-> (dna1[k] - dna2[k]) * (dna1[k] - dna2[k]) ])

\* diff < SIMILARITY_THRESHOLD, for diff = sqrt(sumSq)/sqrt(8)
BelowThreshold(sumSq) == sumSq < 8 * SIMILARITY_THRESHOLD * SIMILARITY_THRESHOLD

dnaToColor(dna) ==
    [ r |-> Floor(dna[gAGG] * 255, GS), g |-> Floor(dna[gPHO] * 255, GS),
      b |-> Floor(dna[gDEF] * 255, GS) ]

\* the scan of identify (lines 100-106) over the differences diffs: the first
\* index with the smallest difference, 0 for an empty list
FirstMin(diffs) ==
    IF Len(diffs) = 0 THEN 0
    ELSE CHOOSE i \in 1 .. Len(diffs) :
           /\ \A j \in 1 .. Len(diffs) : diffs[i] <= diffs[j]
           /\ \A j \in 1 .. (i - 1) : diffs[j] > diffs[i]

\* a scan that stops at the first prototype under the threshold
FirstFit(list, genome) ==
    IF \E k \in 1 .. Len(list) :
          BelowThreshold(calculateDifference(genome, list[k].representativeDNA))
    THEN CHOOSE k \in 1 .. Len(list) :
           /\ BelowThreshold(calculateDifference(genome, list[k].representativeDNA))
           /\ \A j \in 1 .. (k - 1) :
                 ~BelowThreshold(calculateDifference(genome, list[j].representativeDNA))
    ELSE 0

BestMatch(list, genome) ==
    FirstMin([ k \in 1 .. Len(list) |->
                 calculateDifference(genome, list[k].representativeDNA) ])

\* An id source that numbers a new species by its place in the list (what
\* identify would hand out if it did not keep the counter of line 114).
listLengthId(tr) == Len(tr.speciesList) + 1

\* const newId = this.nextId++ (line 114): the id handed to a new species
NewSpeciesId(tr) == tr.nextId

\* identify, lines 114-121: a new species with id newId
Founded(tr, genome, newId) ==
    [ tr EXCEPT
        !.nextId = tr.nextId + 1,
        !.speciesList = Append(tr.speciesList,
             [ id |-> newId, representativeDNA |-> genome,
               population |-> 1, color |-> dnaToColor(genome) ]),
        !.issued = Append(tr.issued, newId),
        !.ret = newId ]

\* identify, lines 108-121, once the scan has found bestMatch
Matched(tr, genome, bestMatch) ==
    IF bestMatch # 0 /\ BelowThreshold(calculateDifference(genome,
                            tr.speciesList[bestMatch].representativeDNA))
    THEN [ tr EXCEPT !.speciesList[bestMatch].population = @ + 1,
                     !.ret = tr.speciesList[bestMatch].id ]
    ELSE Founded(tr, genome, NewSpeciesId(tr))

\* SpeciesTracker.identify(genome); the id is left in .ret
identify(tr, genome) == Matched(tr, genome, BestMatch(tr.speciesList, genome))

resetCounts(tr) ==
    [ tr EXCEPT !.speciesList =
        [ k \in 1 .. Len(tr.speciesList) |->
            [ tr.speciesList[k] EXCEPT !.population = 0 ] ] ]

prune(tr) ==
    [ tr EXCEPT !.speciesList = SelectSeq(tr.speciesList, LAMBDA s : s.population > 0) ]

----------------------------------------------------------------------------
(* Engine: the per-cell update                                             *)

REPRO_ENERGY == 150
HUNGER_THRESHOLD == 60

Event(type, a, b) == [ type |-> type, a |-> a, b |-> b ]
emit(st, e) == [ st EXCEPT !.events = Append(st.events, e) ]

\* one "if (gene > maxVal) { maxVal = gene; type = name; }" of
\* getDominantArchetype, on best = << maxVal, type >>
TypePick(best, gene, name) == IF gene > best[1] THEN << gene, name >> ELSE best

\* Engine.getDominantArchetype(genome)
getDominantArchetype(genome) ==
    TypePick(TypePick(TypePick(TypePick(<< 0, "Promedio" >>, genome[gAGG], "Depredador"),
                               genome[gPHO], "Productor"),
                      genome[gDEF], "Tanque"),
             genome[gSPD], "Velocista")[2]

\* cos and sin of Math.random() * 2 * PI for Math.random() = k/8, in thousandths
COS8 == << 1000, 707, 0, -707, -1000, -707, 0, 707 >>
SIN8 == << 0, 707, 1000, 707, 0, -707, -1000, -707 >>

\* 10 + Math.random() * 20 (tenths), drawn in generator state r
ScatterDist(r) == 10 * PS + Rs(RandomValue(r) * 20 * PS, 1000)

\* the survivors loop of fragmentColony; the genome argument is a view of
\* slot idx of the cells buffer, read when each survivor is spawned
RECURSIVE ScatterSurvivors(_, _, _, _, _)
ScatterSurvivors(st, idx, x, y, left) ==
    IF left = 0 THEN st
    ELSE ScatterSurvivors(
             spawn([ st EXCEPT !.rng = RngAfter(st.rng, 2) ],
                   x + Rs(COS8[st.rng + 1] * ScatterDist(NextRng(st.rng)), 1000),
                   y + Rs(SIN8[st.rng + 1] * ScatterDist(NextRng(st.rng)), 1000),
                   st.cells[idx].genome),
             idx, x, y, left - 1)

\* Engine.fragmentColony(idx, mass, genome)
fragmentColony(st, idx, mass) ==
    ScatterSurvivors(remove(st, idx), idx, getX(st, idx), getY(st, idx),
                     Min(5, Floor(mass, 2 * ES)))

\* wander, lines 546-550: the velocity (vx, vy) capped at maxSpeed
Capped(st, idx, vx, vy, maxSpeed) ==
    IF vx * vx + vy * vy > maxSpeed * maxSpeed /\ vx * vx + vy * vy > 0
    THEN [ st EXCEPT !.cells[idx].vx = Rs(vx * maxSpeed, ISqrt(vx * vx + vy * vy)),
                     !.cells[idx].vy = Rs(vy * maxSpeed, ISqrt(vx * vx + vy * vy)) ]
    ELSE [ st EXCEPT !.cells[idx].vx = vx, !.cells[idx].vy = vy ]

\* Engine.wander(idx, speedMult)
wander(st, idx, speedMult) ==
    Capped([ st EXCEPT !.rng = RngAfter(st.rng, 2) ], idx,
           st.cells[idx].vx + Rs((RandomValue(st.rng) - 500) * 10 * PS, 1000),
           st.cells[idx].vy + Rs((RandomValue(NextRng(st.rng)) - 500) * 10 * PS, 1000),
           Rs(speedMult * 50 * PS, GS))

\* myMass > nMass * 1.2
Outweighs(myMass, nMass) == myMass * 10 > nMass * 12

\* 8 * (1 + Math.log(myMass) * 1.5), in tenths
EatRadius(myMass) == Rs(8 * (1000 + Rs(3 * Ln(myMass), 2)) * PS, 1000)

\* distSq < eatRadiusSq * 1.2 with eatRadiusSq = EatRadius ** 2 (distSq is an
\* integer: it is below the bound when it is below the bound rounded up).
\* Math.log of a negative mass is NaN (every comparison false); of zero it is
\* -Infinity, whose square is Infinity (the comparison true).
WithinEatRadius(distSq, myMass) ==
    IF myMass < 0 THEN FALSE
    ELSE IF myMass = 0 THEN TRUE
    ELSE distSq < -((-(EatRadius(myMass) * EatRadius(myMass) * 12)) \div 10)

\* the mass transfer rate 1.5 * dt (thousandths)
StealAmount(dt) == Rs(1500 * dt, 1000)

\* the mass the prey is left with by one steal
DrainedMass(nMass, steal) == nMass - steal

\* (tx - x) ** 2 + (ty - y) ** 2
DistSq(st, n, x, y) ==
    (getX(st, n) - x) * (getX(st, n) - x) + (getY(st, n) - y) * (getY(st, n) - y)

AreAllies(st, idx, n) ==
    st.allianceId[idx] # -1 /\ st.allianceId[idx] = st.allianceId[n]

\* "1. Absorption": the test of lines 401-411
Absorbs(st, idx, n, x, y) ==
    /\ Outweighs(st.cells[idx].mass, st.cells[n].mass)
    /\ WithinEatRadius(DistSq(st, n, x, y), st.cells[idx].mass)
    /\ ~AreAllies(st, idx, n)

\* lines 418-420: the absorption of a mass above 5 is notified
AbsorbNotice(st, nMass) ==
    IF nMass > 5 * ES THEN emit(st, Event("absorption", nMass, 0)) ELSE st

\* "CONSUME", lines 413-421; energy is the local of processCell
Absorb(st, idx, n, energy) ==
    AbsorbNotice(remove([ st EXCEPT !.cells[idx].mass = @ + st.cells[n].mass,
                                    !.cells[idx].energy = @ + Rs(energy, 2) ], n),
                 st.cells[n].mass)

\* "Predation / Fighting": the test of line 435
Steals(st, idx, n, aggressiveness) ==
    /\ ~AreAllies(st, idx, n)
    /\ aggressiveness > 50
    /\ Outweighs(st.cells[idx].mass, st.cells[n].mass)

\* lines 439-447: the assimilation event
Assimilation(st, idx, n, steal) ==
    IF /\ st.cells[idx].mass > 2 * ES
       /\ st.cells[n].mass > 2 * ES
       /\ DrainedMass(st.cells[n].mass, steal) <= 100
    THEN emit(st, Event("assimilation",
                        getDominantArchetype(getGenome(st, idx)),
                        getDominantArchetype(getGenome(st, n))))
    ELSE st

\* lines 449-453: the transfer of mass, and the energy gained from eating
Transfer(st, idx, n, steal) ==
    [ st EXCEPT !.cells[idx].mass = @ + steal,
                !.cells[n].mass = DrainedMass(@, steal),
                !.cells[idx].energy = @ + steal * 10 ]

\* lines 435-454
Steal(st, idx, n, aggressiveness, dt) ==
    IF Steals(st, idx, n, aggressiveness)
    THEN Transfer(Assimilation(st, idx, n, StealAmount(dt)), idx, n, StealAmount(dt))
    ELSE st

\* "Alliance Cooperation", the test of lines 457-460
Shares(cx, idx, n) ==
    /\ AreAllies(cx.st, idx, n)
    /\ cx.energy > 100 * ES
    /\ cx.st.cells[n].energy < 50 * ES

\* lines 461-463: 10 * dt of energy goes from the local energy to the ally
Share(cx, idx, n, dt) ==
    IF Shares(cx, idx, n)
    THEN [ cx EXCEPT !.energy = @ - Rs(10 * ES * dt, 1000),
                     !.st.cells[n].energy = @ + Rs(10 * ES * dt, 1000) ]
    ELSE cx

\* "Predation", the test of lines 473-474 (bestTarget = -1: minDist is Infinity)
Hunts(cx, distSq, nGenome, myMass, nMass, aggressiveness) ==
    /\ cx.energy < HUNGER_THRESHOLD * ES
    /\ nGenome[gDEF] < aggressiveness
    /\ myMass >= nMass
    /\ (cx.bestTarget = -1 \/ distSq < cx.minDist)

\* "Fleeing", the test of line 481 (fleeTarget = -1: minFleeDist is Infinity)
Flees(cx, distSq, nGenome, defense) ==
    /\ nGenome[gAGG] > defense
    /\ (cx.fleeTarget = -1 \/ distSq < cx.minFleeDist)

\* lines 473-484: the targets after neighbor n
Target(cx, n, distSq, nGenome, myMass, nMass, aggressiveness, defense) ==
    [ cx EXCEPT
        !.bestTarget = IF Hunts(cx, distSq, nGenome, myMass, nMass, aggressiveness)
                       THEN n ELSE @,
        !.minDist = IF Hunts(cx, distSq, nGenome, myMass, nMass, aggressiveness)
                    THEN distSq ELSE @,
        !.fleeTarget = IF Flees(cx, distSq, nGenome, defense) THEN n ELSE @,
        !.minFleeDist = IF Flees(cx, distSq, nGenome, defense) THEN distSq ELSE @ ]

\* The callback handed to spatialGrid.query in processCell, for one neighbor.
\* cx carries the storage and the locals of processCell the callback updates:
\* energy, bestTarget, minDist, fleeTarget, minFleeDist.
Neighbor(cx, idx, n, x, y, aggressiveness, defense, dt) ==
    IF n = idx THEN cx
    ELSE IF Absorbs(cx.st, idx, n, x, y)
    THEN [ cx EXCEPT !.st = Absorb(cx.st, idx, n, cx.energy) ]
    ELSE Target(Share([ cx EXCEPT !.st = Steal(cx.st, idx, n, aggressiveness, dt) ],
                      idx, n, dt),
                n, DistSq(cx.st, n, x, y), getGenome(cx.st, n),
                cx.st.cells[idx].mass, cx.st.cells[n].mass, aggressiveness, defense)

\* the calls of the callback for order[k], ..., in the order of the query: the
\* first half of them, then the second half on what the first half left
RECURSIVE VisitNeighbors(_, _, _, _, _, _, _, _, _)
VisitNeighbors(cx, idx, order, k, x, y, aggressiveness, defense, dt) ==
    IF k > Len(order) \/ cx.bestTarget < -1 THEN cx
    ELSE IF k = Len(order)
    THEN Neighbor(cx, idx, order[k], x, y, aggressiveness, defense, dt)
    ELSE VisitNeighbors(
             VisitNeighbors(cx, idx, SubSeq(order, 1, (k + Len(order)) \div 2), k,
                            x, y, aggressiveness, defense, dt),
             idx, order, (k + Len(order)) \div 2 + 1, x, y, aggressiveness, defense, dt)

\* the energy spent by one cell in one update (line 354)
energyCost(c, dt) ==
    Rs(((c.vx * c.vx + c.vy * c.vy) * 5
        + Rs(c.genome[gSIZ] * c.genome[gSIZ] * c.genome[gSIZ], 1000)
        + c.genome[gVIS] * 5) * dt, 1000)

\* lines 363-367: colonies feed more efficiently
ScaledGain(base, mass) ==
    IF mass > 2 * ES THEN Rs(base * (10 + 2 * Log10Level(mass)), 10) ELSE base

\* the energy gained from the sun by one cell in one update (lines 359-367)
energyGain(c, dt) ==
    ScaledGain(Rs(Rs(Rs(getSolarIntensity(c.x, c.y, worldSize) * c.genome[gPHO] * 45, GS)
                     * foodAbundance, GS) * dt, 1000),
               c.mass)

PoisonLoss(poison, dt) == IF poison > 0 THEN Rs(poison * 50 * dt, 1000) ELSE 0
poisonCost(c, dt) == PoisonLoss(getPoison(c.x, c.y, worldSize), dt)

\* "1. Thermodynamics": the local energy after lines 345-371
Thermo(c, dt) == c.energy - energyCost(c, dt) + energyGain(c, dt) - poisonCost(c, dt)

\* lines 492-498 and 504-510: the velocity of idx set along (dx, dy) with
\* magnitude maxSpeed, when dist > 0.1
Steer(st, idx, dx, dy, maxSpeed) ==
    IF dx * dx + dy * dy > 1
    THEN [ st EXCEPT !.cells[idx].vx = Rs(dx * maxSpeed, ISqrt(dx * dx + dy * dy)),
                     !.cells[idx].vy = Rs(dy * maxSpeed, ISqrt(dx * dx + dy * dy)) ]
    ELSE st

\* lines 512-515: the target is eaten when dist < size * 10 + its size * 10;
\* r carries the storage and the local energy
Bite(r, bestTarget, distSq, reach) ==
    IF distSq < reach * reach
    THEN [ st |-> remove(r.st, bestTarget), energy |-> r.energy + 30 * ES ]
    ELSE r

\* the storage and the local energy after lines 487-518
Act(cx, idx, x, y, speedMultiplier, size) ==
    IF cx.fleeTarget # -1
    THEN [ st |-> Steer(cx.st, idx, x - getX(cx.st, cx.fleeTarget),
                        y - getY(cx.st, cx.fleeTarget),
                        Rs(speedMultiplier * 100 * PS, GS)),
           energy |-> cx.energy ]
    ELSE IF cx.bestTarget # -1
    THEN Bite([ st |-> Steer(cx.st, idx, getX(cx.st, cx.bestTarget) - x,
                             getY(cx.st, cx.bestTarget) - y,
                             Rs(speedMultiplier * 100 * PS, GS)),
                energy |-> cx.energy ],
              cx.bestTarget, DistSq(cx.st, cx.bestTarget, x, y),
              size + getGenome(cx.st, cx.bestTarget)[gSIZ])
    ELSE [ st |-> wander(cx.st, idx, speedMultiplier), energy |-> cx.energy ]

\* lines 532-536: the energy written back at the end of processCell
WriteBack(st, idx, energy) ==
    IF energy <= 0 THEN remove(st, idx) ELSE setEnergy(st, idx, energy)

\* lines 522-524
CountBirth(s1) == IF s1.ret # -1 THEN [ s1 EXCEPT !.totalBirths = @ + 1 ] ELSE s1

\* lines 527-529: the glow sentinel in slot 7
Glow(st, idx) == [ st EXCEPT !.cells[idx].meta = -1 ]
Unglow(st, idx) == IF st.cells[idx].meta = -1 THEN [ st EXCEPT !.cells[idx].meta = 0 ] ELSE st

\* "3. Evolution" and the write-back of processCell; r carries the storage and
\* the local energy
Evolve(r, idx) ==
    IF r.energy > REPRO_ENERGY * ES
    THEN WriteBack(Glow(CountBirth(reproduce(r.st, idx)), idx), idx, r.energy - 80 * ES)
    ELSE WriteBack(Unglow(r.st, idx), idx, r.energy)

\* "1. Thermodynamics" and the query of "2. AI & Behavior" (lines 345-452) for
\* the cell c of slot idx: the storage, the local energy and the targets
Sensed(st, idx, c, dt) ==
    VisitNeighbors([ st |-> st, energy |-> Thermo(c, dt),
                     bestTarget |-> -1, minDist |-> 0,
                     fleeTarget |-> -1, minFleeDist |-> 0 ],
                   idx, gridQuery(st.grid, c.x, c.y, c.genome[gVIS] * PS),
                   1, c.x, c.y, c.genome[gAGG], c.genome[gDEF], dt)

\* "1. Thermodynamics" and "2. AI & Behavior" of processCell for the cell c of
\* slot idx: the storage and the local energy as line 521 finds them
Ready(st, idx, c, dt) ==
    Act(Sensed(st, idx, c, dt), idx, c.x, c.y, c.genome[gSPD], c.genome[gSIZ])

\* the steps of processCell for a cell that is not a fragmenting colony
Behave(st, idx, c, dt) == Evolve(Ready(st, idx, c, dt), idx)

\* Engine.processCell(idx, dt)
processCell(st, idx, dt) ==
    IF st.cells[idx].mass > 1500 /\ st.cells[idx].mass < 10 * ES
    THEN fragmentColony(st, idx, st.cells[idx].mass)
    ELSE Behave(st, idx, st.cells[idx], dt)

\* lines 74-76: a cell that is no longer active after its update is a death
Tally(s1, i) == IF s1.isActive[i] = 0 THEN [ s1 EXCEPT !.deaths = @ + 1 ] ELSE s1

\* an update loop that does not skip the empty slots
ProcessSlotBlind(st, i, dt) == Tally(processCell(st, i, dt), i)

\* lines 71-77: one turn of the loop of "3. Process Cells"
ProcessSlot(st, i, dt) ==
    IF st.isActive[i] = 1 THEN Tally(processCell(st, i, dt), i) ELSE st

\* "3. Process Cells" of Engine.update: the slots lo .. hi in order, the first
\* half of them and then the second half on the storage the first half left
RECURSIVE ProcessCells(_, _, _, _)
ProcessCells(st, lo, hi, dt) ==
    IF lo > hi \/ st.activeCount < 0 THEN st
    ELSE IF lo = hi
    THEN ProcessSlot(st, lo, dt)
    ELSE ProcessCells(ProcessCells(st, lo, (lo + hi) \div 2, dt),
                      (lo + hi) \div 2 + 1, hi, dt)

\* Engine.boundaryCheck for one active cell: lines 666-671, c0 is the cell as
\* it was read at lines 663-664
Bounced(c) == [ c EXCEPT !.vx = Rs(c.vx * (-12), 10), !.vy = Rs(c.vy * (-12), 10) ]
Nudged(c) == [ c EXCEPT !.x = c.x + Rs(c.vx, 10), !.y = c.y + Rs(c.vy, 10) ]

\* lines 673-676: the wrap, decided on the position read at lines 663-664
Wrapped(c, x, y) ==
    [ c EXCEPT !.x = IF x > worldSize * PS THEN 0
                     ELSE IF x < 0 THEN worldSize * PS ELSE @,
               !.y = IF y > worldSize * PS THEN 0
                     ELSE IF y < 0 THEN worldSize * PS ELSE @ ]

BoundedCell(c) ==
    Wrapped(IF isBlocked(c.x, c.y, worldSize) THEN Nudged(Bounced(c)) ELSE c, c.x, c.y)

\* Engine.boundaryCheck (cells buffer only)
boundaryCheck(st) ==
    [ st EXCEPT !.cells = [ i \in Slots |-> IF st.isActive[i] = 1
                                             THEN BoundedCell(st.cells[i])
                                             ELSE st.cells[i] ] ]

\* "5. Swap Buffers (Ping-Pong)"
swapBuffers(st) == [ st EXCEPT !.cells = st.nextCells, !.nextCells = st.cells ]

----------------------------------------------------------------------------
(* Engine: colony formation (every 30 frames)                              *)

MAX_ENTITIES == 2000
COLONY_THRESHOLD == 15
COLONY_RADIUS == 50
CROWDED_THRESHOLD == 5
CROWDED_RADIUS == 80
SWARM_INTERVAL == 30
SPECIES_INTERVAL == 60
ALLIANCE_INTERVAL == 60

densityThreshold(st) ==
    IF st.activeCount > MAX_ENTITIES THEN CROWDED_THRESHOLD ELSE COLONY_THRESHOLD
searchRadius(st) ==
    IF st.activeCount > MAX_ENTITIES THEN CROWDED_RADIUS ELSE COLONY_RADIUS

\* a callback that pushes a neighbour already visited
JoinedAgain(st, i, n, acc) ==
    IF n # i /\ st.cells[n].archIdx = st.cells[i].archIdx
    THEN [ cluster |-> Append(acc.cluster, n), visited |-> acc.visited \cup {n} ]
    ELSE acc

\* the query callback of checkSwarmDensity (lines 229-238) for neighbor n of
\* seed i: acc = [cluster, visited]
Joined(st, i, n, acc) ==
    IF n # i /\ n \notin acc.visited /\ st.cells[n].archIdx = st.cells[i].archIdx
    THEN [ cluster |-> Append(acc.cluster, n), visited |-> acc.visited \cup {n} ]
    ELSE acc

RECURSIVE GatherCluster(_, _, _, _, _)
GatherCluster(st, i, order, k, acc) ==
    IF k > Len(order) \/ Len(acc.cluster) < 0 THEN acc
    ELSE IF k = Len(order) THEN Joined(st, i, order[k], acc)
    ELSE GatherCluster(st, i, order, (k + Len(order)) \div 2 + 1,
             GatherCluster(st, i, SubSeq(order, 1, (k + Len(order)) \div 2), k, acc))

\* lines 240-243: acc = [visited, toMerge], got the cluster gathered around i
Clustered(acc, i, got, threshold) ==
    IF Len(got.cluster) > threshold
    THEN [ visited |-> got.visited \cup {i},
           toMerge |-> Append(acc.toMerge, got.cluster) ]
    ELSE [ visited |-> got.visited, toMerge |-> acc.toMerge ]

\* lines 221-244 for slot i
Surrounded(st, i, acc) ==
    IF st.isActive[i] = 0 \/ i \in acc.visited THEN acc
    ELSE Clustered(acc, i,
                   GatherCluster(st, i,
                                 gridQuery(st.grid, getX(st, i), getY(st, i),
                                           searchRadius(st) * PS),
                                 1, [ cluster |-> << i >>, visited |-> acc.visited ]),
                   densityThreshold(st))

\* "Identify clusters": the slots lo .. hi in order, acc = [visited, toMerge]
RECURSIVE IdentifyClusters(_, _, _, _)
IdentifyClusters(st, lo, hi, acc) ==
    IF lo > hi \/ Len(acc.toMerge) < 0 \/ st.activeCount < 0 THEN acc
    ELSE IF lo = hi THEN Surrounded(st, lo, acc)
    ELSE IdentifyClusters(st, (lo + hi) \div 2 + 1, hi,
                          IdentifyClusters(st, lo, (lo + hi) \div 2, acc))

\* toMerge, as the first loop of checkSwarmDensity leaves it
ClustersOf(st) ==
    IdentifyClusters(st, 0, maxCells - 1, [ visited |-> {}, toMerge |-> << >> ]).toMerge

\* one call of the forEach callback of formColony (lines 260-277) on the cell
\* c of slot idx: acc = [st, totalMass, avgX, avgY, maxEnergy, best]
\* (best: the slot bestGenome is a view of, -1 while bestGenome is null)
Summed(acc, idx, c) ==
    [ st |-> remove(acc.st, idx),
      totalMass |-> acc.totalMass + c.mass,
      avgX |-> acc.avgX + c.x,
      avgY |-> acc.avgY + c.y,
      maxEnergy |-> IF c.energy > acc.maxEnergy THEN c.energy ELSE acc.maxEnergy,
      best |-> IF c.energy > acc.maxEnergy THEN idx ELSE acc.best ]

RECURSIVE SumCluster(_, _, _)
SumCluster(cluster, k, acc) ==
    IF k > Len(cluster) \/ acc.best < -1 THEN acc
    ELSE IF k = Len(cluster) THEN Summed(acc, cluster[k], acc.st.cells[cluster[k]])
    ELSE SumCluster(cluster, (k + Len(cluster)) \div 2 + 1,
                    SumCluster(SubSeq(cluster, 1, (k + Len(cluster)) \div 2), k, acc))

\* the energy given to a new colony (line 290)
ColonyEnergy(maxEnergy, totalMass) == maxEnergy + totalMass * 10

\* lines 286-300: s1 is the storage after the spawn of the colony
Crowned(s1, sum) ==
    IF s1.ret = -1 THEN s1
    ELSE emit([ s1 EXCEPT
                  !.cells[s1.ret].mass = sum.totalMass,
                  !.cells[s1.ret].energy = ColonyEnergy(sum.maxEnergy, sum.totalMass),
                  !.cells[s1.ret].vx = 0,
                  !.cells[s1.ret].vy = 0,
                  !.cells[s1.ret].meta = -1 ],
              Event("colony", getDominantArchetype(s1.cells[sum.best].genome),
                    sum.totalMass))

\* lines 279-285: bestGenome is read from its slot when the colony is spawned
Settled(sum, n) ==
    IF sum.best = -1 THEN sum.st
    ELSE Crowned(spawn(sum.st, Rs(sum.avgX, n), Rs(sum.avgY, n),
                       sum.st.cells[sum.best].genome),
                 sum)

\* Engine.formColony(clusterIndices)
formColony(st, cluster) ==
    Settled(SumCluster(cluster, 1,
                       [ st |-> st, totalMass |-> 0, avgX |-> 0, avgY |-> 0,
                         maxEnergy |-> -1 * ES, best |-> -1 ]),
            Len(cluster))

\* "Execute Mergers"
RECURSIVE ExecuteMergers(_, _, _)
ExecuteMergers(st, toMerge, k) ==
    IF k > Len(toMerge) \/ st.activeCount < 0 THEN st
    ELSE ExecuteMergers(formColony(st, toMerge[k]), toMerge, k + 1)

\* Engine.checkSwarmDensity
checkSwarmDensity(st) ==
    ExecuteMergers(st, ClustersOf(st), 1)

----------------------------------------------------------------------------
(* Engine: alliance maintenance (every 60 frames)                          *)

ALLIANCE_RADIUS == 400
FUSION_MASS == 100
SUPER_ENERGY == 5000

\* lines 106-111: the colonies, in slot order from slot i
Colonies(st, i) ==
    SortBy({ j \in Slots : j >= i /\ st.isActive[j] = 1 /\ st.cells[j].mass > 2 * ES },
           [ j \in Slots |-> j ])

\* "Very similar genetics": the markers are genes 0, 1, 2
Affinity(g1, g2) ==
    Abs(g1[gSPD] - g2[gSPD]) + Abs(g1[gAGG] - g2[gAGG]) + Abs(g1[gPHO] - g2[gPHO])

\* a partner search that takes a similar colony at any distance
PartneredAnywhere(st, idx, otherIdx, acc) ==
    IF /\ otherIdx \notin acc.visited
       /\ Affinity(getGenome(st, idx), getGenome(st, otherIdx)) < 30
    THEN [ alliance |-> Append(acc.alliance, otherIdx),
           visited |-> acc.visited \cup {otherIdx} ]
    ELSE acc

\* lines 128-147 for one candidate: acc = [alliance, visited]
Partnered(st, idx, otherIdx, acc) ==
    IF /\ otherIdx \notin acc.visited
       /\ DistSq(st, otherIdx, getX(st, idx), getY(st, idx))
              < (ALLIANCE_RADIUS * PS) * (ALLIANCE_RADIUS * PS)
       /\ Affinity(getGenome(st, idx), getGenome(st, otherIdx)) < 30
    THEN [ alliance |-> Append(acc.alliance, otherIdx),
           visited |-> acc.visited \cup {otherIdx} ]
    ELSE acc

\* "Find up to 2 partners"
RECURSIVE FindPartners(_, _, _, _, _)
FindPartners(st, idx, colonies, k, acc) ==
    IF k > Len(colonies) \/ Len(acc.alliance) >= 3 THEN acc
    ELSE FindPartners(st, idx, colonies, k + 1, Partnered(st, idx, colonies[k], acc))

\* alliance.reduce((prev, curr) => energy(curr) > energy(prev) ? curr : prev)
RECURSIVE BestMember(_, _, _, _)
BestMember(st, alliance, k, prev) ==
    IF k > Len(alliance) THEN prev
    ELSE BestMember(st, alliance, k + 1,
                    IF getEnergy(st, alliance[k]) > getEnergy(st, prev)
                    THEN alliance[k] ELSE prev)

\* alliance.forEach(m => this.storage.remove(m))
RECURSIVE RemoveAll(_, _, _)
RemoveAll(st, members, k) ==
    IF k > Len(members) THEN st
    ELSE RemoveAll(remove(st, members[k]), members, k + 1)

\* A fusion that hands over the plain total, without the factor of line 181.
SuperMassPlain(total) == total

\* the mass given to a super-colony: total * 1.1
SuperMass(total) == Rs(total * 11, 10)

\* lines 154-156
Registered(st, alliance, id) ==
    [ st EXCEPT !.allianceId =
        [ i \in Slots |-> IF \E k \in 1 .. Len(alliance) : alliance[k] = i
                           THEN id ELSE st.allianceId[i] ] ]

\* lines 159-167: the total mass and the centroid of an alliance
AllianceMass(st, alliance) ==
    SeqSum([ k \in 1 .. Len(alliance) |-> st.cells[alliance[k]].mass ])
CentroidX(st, alliance) ==
    Rs(SeqSum([ k \in 1 .. Len(alliance) |-> st.cells[alliance[k]].x ]), Len(alliance))
CentroidY(st, alliance) ==
    Rs(SeqSum([ k \in 1 .. Len(alliance) |-> st.cells[alliance[k]].y ]), Len(alliance))

\* lines 179-190: s1 is the storage after the spawn of the super-colony;
\* superGenome is a view of the slot of bestMember
Announced(s2, bestMember, total) ==
    emit(s2, Event("fusion", getDominantArchetype(getGenome(s2, bestMember)), total))

Fused(s1, alliance, total, bestMember) ==
    IF s1.ret = -1 THEN s1
    ELSE Announced(RemoveAll([ s1 EXCEPT !.cells[s1.ret].mass = SuperMass(total),
                                          !.cells[s1.ret].energy = SUPER_ENERGY * ES,
                                          !.cells[s1.ret].meta = -1 ],
                             alliance, 1),
                   bestMember, total)

\* lines 170-198
Fusion(s0, alliance, total, bestMember) ==
    IF total > FUSION_MASS * ES
    THEN Fused(spawn(s0, CentroidX(s0, alliance), CentroidY(s0, alliance),
                     getGenome(s0, bestMember)),
               alliance, total, bestMember)
    ELSE emit(s0, Event("alliance", getDominantArchetype(getGenome(s0, alliance[1])),
                        Len(alliance)))

\* the body of the outer loop for a registered alliance (length >= 3)
registerAlliance(st, alliance, id) ==
    Fusion(Registered(st, alliance, id), alliance, AllianceMass(st, alliance),
           BestMember(st, alliance, 2, alliance[1]))

\* lines 152-200: acc = [st, visited, nextAllianceId], got = [alliance, visited]
Allied(acc, got) ==
    IF Len(got.alliance) >= 3
    THEN [ st |-> registerAlliance(acc.st, got.alliance, acc.nextAllianceId),
           visited |-> got.visited,
           nextAllianceId |-> acc.nextAllianceId + 1 ]
    ELSE [ acc EXCEPT !.visited = got.visited ]

\* the outer loop of updateAlliances
RECURSIVE FormAlliances(_, _, _)
FormAlliances(colonies, k, acc) ==
    IF k > Len(colonies) THEN acc.st
    ELSE IF colonies[k] \in acc.visited THEN FormAlliances(colonies, k + 1, acc)
    ELSE FormAlliances(colonies, k + 1,
             Allied(acc, FindPartners(acc.st, colonies[k], colonies, 1,
                                      [ alliance |-> << colonies[k] >>,
                                        visited |-> acc.visited \cup {colonies[k]} ])))

\* Engine.updateAlliances
updateAlliances(st) ==
    FormAlliances(Colonies(st, 0), 1,
                  [ st |-> [ st EXCEPT !.allianceId = [ i \in Slots |-> -1 ] ],
                    visited |-> {}, nextAllianceId |-> 1 ])

----------------------------------------------------------------------------
(* Engine: species pass and the tick                                       *)

\* lines 558-560 for slot i: acc = [st, tr, ids], t1 the tracker after identify
Labelled(acc, i, t1) ==
    [ st |-> [ acc.st EXCEPT !.cells[i].meta = t1.ret ],
      tr |-> t1,
      ids |-> [ acc.ids EXCEPT ![i] = t1.ret ] ]

\* the loop of updateSpecies
RECURSIVE IdentifyAll(_, _, _)
IdentifyAll(lo, hi, acc) ==
    IF lo > hi \/ acc.tr.nextId < 0 THEN acc
    ELSE IF lo = hi
    THEN IF acc.st.isActive[lo] = 0 THEN acc
         ELSE Labelled(acc, lo, identify(acc.tr, getGenome(acc.st, lo)))
    ELSE IdentifyAll((lo + hi) \div 2 + 1, hi, IdentifyAll(lo, (lo + hi) \div 2, acc))

Pruned(done) == [ done EXCEPT !.tr = prune(done.tr) ]

\* Engine.updateSpecies: [st, tr, ids], ids the id handed to each slot
updateSpecies(st, tr) ==
    Pruned(IdentifyAll(0, maxCells - 1, [ st |-> st, tr |-> resetCounts(tr),
                            ids |-> [ i \in Slots |-> 0 ] ]))

\* a colony pass on the frames of the alliance pass only
IsSwarmFrameRare(f) == f % ALLIANCE_INTERVAL = 0

IsSpeciesFrame(f) == f = 1 \/ f % SPECIES_INTERVAL = 0
IsSwarmFrame(f) == f % SWARM_INTERVAL = 0
IsAllianceFrame(f) == f % ALLIANCE_INTERVAL = 0

\* steps 1-2 of Engine.update for frame f: [st, tr, ids]
Surveyed(s1, tr, f) ==
    IF IsSpeciesFrame(f) THEN updateSpecies(s1, tr)
    ELSE [ st |-> s1, tr |-> tr, ids |-> passIds ]

\* steps 6 and 7 (the test on activeCount, which never fails, has the storage
\* of the earlier steps computed before the pass is entered)
Swarmed(st, f) ==
    IF IsSwarmFrame(f) /\ st.activeCount >= 0 THEN checkSwarmDensity(st) ELSE st
Allianced(st, f) ==
    IF IsAllianceFrame(f) /\ st.activeCount >= 0 THEN updateAlliances(st) ELSE st

\* steps 3-7 of Engine.update for frame f, after the grid and species steps;
\* .deaths is left holding frameDeaths
updateFrom(st, f, dt) ==
    Allianced(Swarmed(swapBuffers(boundaryCheck(updatePositions(
        ProcessCells([ st EXCEPT !.deaths = 0 ], 0, maxCells - 1, dt), dt))), f), f)

----------------------------------------------------------------------------
(* Engine: what the host reads, and its settings                           *)

\* getTelemetry, lines 604-611: the index of the first largest gene, scanning
\* from gene g; best = << maxVal, dominant >>
RECURSIVE DominantGene(_, _, _)
DominantGene(genome, g, best) ==
    IF g > 8 THEN best[2]
    ELSE DominantGene(genome, g + 1,
                      IF genome[g] > best[1] THEN << genome[g], g - 1 >> ELSE best)

\* A count that does not skip the inactive slots (getTelemetry without line 600).
CountedAll(st, i) == i \in Slots

\* line 600: the slots getTelemetry counts
Counted(st, i) == st.isActive[i] = 1

\* geneHistogram[g]: the counted cells whose dominant gene is g
geneHistogram(st) ==
    [ g \in 1 .. 8 |->
        Cardinality({ i \in Slots :
                        /\ Counted(st, i)
                        /\ DominantGene(getGenome(st, i), 1, << -1 * GS, 0 >>) = g - 1 }) ]

\* archetypeDist[a]: the counted cells of archetype a; an index outside the
\* Int32Array(5) increments nothing
archetypeDist(st) ==
    [ a \in 1 .. 5 |->
        Cardinality({ i \in Slots : Counted(st, i) /\ st.cells[i].archIdx = a - 1 }) ]

\* Engine.getTelemetry()
getTelemetry(st) ==
    [ alive |-> st.activeCount,
      births |-> st.totalBirths,
      deaths |-> totalDeaths,
      generation |-> Floor(frameCount, 500),
      histogram |-> geneHistogram(st),
      archetypes |-> archetypeDist(st) ]


\* the callback of getNearestCell (lines 637-644) for slot nIdx, on
\* best = << minDist, idx >> (minDist in squared tenths)
Nearer(st, best, nIdx, x, y) ==
    IF DistSq(st, nIdx, x, y) < best[1] THEN << DistSq(st, nIdx, x, y), nIdx >> ELSE best

\* the calls of that callback for order[k], ..., in the order of the query
RECURSIVE NearestOf(_, _, _, _, _, _)
NearestOf(st, order, k, x, y, best) ==
    IF k > Len(order) \/ best[2] < -1 THEN best
    ELSE IF k = Len(order) THEN Nearer(st, best, order[k], x, y)
    ELSE NearestOf(st, order, (k + Len(order)) \div 2 + 1, x, y,
                   NearestOf(st, SubSeq(order, 1, (k + Len(order)) \div 2), k, x, y, best))

\* lines 632-646: the slot getNearestCell settles on, -1 for none;
\* isActive[followedIdx] is undefined, hence falsy, outside the array
NearestIdx(st, x, y, followedIdx) ==
    IF followedIdx # -1 /\ followedIdx \in Slots /\ st.isActive[followedIdx] = 1
    THEN followedIdx
    ELSE NearestOf(st, gridQuery(st.grid, x, y, 100 * PS), 1, x, y,
                   << (100 * PS) * (100 * PS), -1 >>)[2]

\* lines 650-658: what the host is sent for slot idx
Snapshot(st, idx) ==
    [ idx |-> idx, x |-> getX(st, idx), y |-> getY(st, idx),
      energy |-> getEnergy(st, idx), mass |-> st.cells[idx].mass,
      genome |-> getGenome(st, idx), generation |-> st.generations[idx] ]

\* null, as a record the host can tell from a snapshot
NoCell == [ idx |-> -1 ]

\* Engine.getNearestCell(x, y, followedIdx)
getNearestCell(st, x, y, followedIdx) ==
    IF NearestIdx(st, x, y, followedIdx) = -1
       \/ st.isActive[NearestIdx(st, x, y, followedIdx)] = 0
    THEN NoCell
    ELSE Snapshot(st, NearestIdx(st, x, y, followedIdx))

\* Engine.applySettings(settings) on st = [ globalMutationRate, foodAbundance,
\* friction ] (hundredths); an option of the message is << >> when it is
\* undefined and << v >> when it is given as v
applySettings(st, settings) ==
    [ globalMutationRate |-> IF settings.mutationRate # << >>
                             THEN settings.mutationRate[1] ELSE st.globalMutationRate,
      foodAbundance |-> IF settings.foodAbundance # << >>
                        THEN settings.foodAbundance[1] ELSE st.foodAbundance,
      friction |-> IF settings.friction # << >>
                   THEN settings.friction[1] ELSE st.friction ]
----------------------------------------------------------------------------
(* The host: construction, seeding, and the calls it makes on the engine   *)

\* genomes the host supplies (hundredths): SPD AGG PHO SIZ DEF VIS MUT LIF
GenomeAverage == << 50, 50, 50, 50, 50, 50, 50, 50 >>
GenomeRunner == << 100, 0, 0, 0, 0, 10, 0, 50 >>
GenomeThief == << 0, 60, 0, 0, 100, 30, 0, 50 >>
GenomeTank == << 0, 0, 0, 0, 100, 0, 0, 50 >>
GenomeGrower == << 0, 0, 100, 0, 80, 0, 100, 50 >>
GenomeWild == << 150, -20, 50, 50, 50, 50, 50, 50 >>

HostGenomes == { GenomeAverage, GenomeWild, ZeroGenome }

\* positions the host supplies (tenths of a world unit)
HostPositions == { << 1000, 1000 >> }

\* dt of a frame, in ms: the page's loop sends Math.min(dt, 0.1)
HostDts == { 100 }

\* the populations the start handler seeds: lists of << x, y, genome >>
SeedCorpses ==
    << << 1000, 1000, GenomeRunner >>, << 1000, 1000, GenomeRunner >>,
       << 1150, 1000, GenomeThief >>, << 1350, 1000, GenomeTank >> >>
SeedPair ==
    << << 1000, 1000, GenomeAverage >>, << 1150, 1000, GenomeGrower >> >>

\* a bait the hunter runs from and that starves of its own flight, the hunter,
\* and its prey 4 units further on
GenomeBait == << 100, 10, 0, 0, 0, 10, 0, 50 >>
GenomeHunter == << 30, 90, 0, 50, 0, 10, 0, 50 >>
GenomePrey == << 0, 0, 0, 0, 10, 0, 0, 50 >>
SeedHunt ==
    << << 1000, 1000, GenomeBait >>, << 1020, 1000, GenomeHunter >>,
       << 1060, 1000, GenomePrey >> >>

Seeds == { SeedCorpses, SeedPair, SeedHunt, << >> }

\* the state variables take the fields of a storage value
Commit(st) ==
    /\ cells' = st.cells
    /\ nextCells' = st.nextCells
    /\ generations' = st.generations
    /\ isActive' = st.isActive
    /\ visualColors' = st.visualColors
    /\ allianceId' = st.allianceId
    /\ cooldowns' = st.cooldowns
    /\ freeIndices' = st.freeIndices
    /\ activeCount' = st.activeCount
    /\ rng' = st.rng
    /\ totalBirths' = st.totalBirths
    /\ gridCell' = st.grid
    /\ epoch' = st.epoch
    /\ events' = st.events

\* the page once the worker has made its engine and the main thread has
\* handled the "ready" reply: the host calls of the specifications below are
\* the messages the worker handles from then on
Served ==
    /\ isWorkerReady = TRUE
    /\ isSimulationRunning = FALSE
    /\ followingIdx = -1
    /\ inspectedCell = NoCell
    /\ toWorker = << >>
    /\ toMain = << >>
    /\ engine = "Engine"
    /\ threw = FALSE
    /\ posted = 1

\* new Engine(worldSize, maxCells): CellStorage.init, an empty tracker
Constructed(n, seeds) ==
    /\ maxCells = n
    /\ worldSize = WORLD_SIZE
    /\ cells = [ i \in 0 .. (n - 1) |-> ZeroCell ]
    /\ nextCells = [ i \in 0 .. (n - 1) |-> ZeroCell ]
    /\ generations = [ i \in 0 .. (n - 1) |-> 0 ]
    /\ isActive = [ i \in 0 .. (n - 1) |-> 0 ]
    /\ visualColors = [ i \in 0 .. (n - 1) |-> ZeroColor ]
    /\ allianceId = [ i \in 0 .. (n - 1) |-> -1 ]
    /\ cooldowns = [ i \in 0 .. (n - 1) |-> 0 ]
    /\ freeIndices = InitFreeIndices(n)
    /\ activeCount = 0
    /\ friction = 98
    /\ globalMutationRate = 100
    /\ foodAbundance = 100
    /\ frameCount = 0
    /\ totalBirths = 0
    /\ totalDeaths = 0
    /\ gridCell = [ bucket |-> [ i \in 0 .. (n - 1) |-> -1 ], grid |-> << >> ]
    /\ speciesList = << >>
    /\ nextId = 1
    /\ rng \in seeds
    /\ events = << >>
    /\ lastOp = [ op |-> "new", arg |-> << >>, ret |-> 0 ]
    /\ passIds = [ i \in 0 .. (n - 1) |-> 0 ]
    /\ issued = << >>
    /\ epoch = [ i \in 0 .. (n - 1) |-> 0 ]
    /\ hostOps = 0

\* the worker's "init" message, handled
InitWith(n, seeds) == Constructed(n, seeds) /\ Served

\* the states of the generator behind Math.random() the runs start from
RngSeeds == { 0, 5 }

Init == InitWith(MaxCells, RngSeeds)

RECURSIVE SpawnAll(_, _, _, _)
SpawnAll(st, seed, lo, hi) ==
    IF lo > hi \/ st.activeCount < 0 THEN st
    ELSE IF lo = hi THEN spawn(st, seed[lo][1], seed[lo][2], seed[lo][3])
    ELSE SpawnAll(SpawnAll(st, seed, lo, (lo + hi) \div 2), seed, (lo + hi) \div 2 + 1, hi)

\* one spawn per seeded cell
Seeded(seed) ==
    /\ Commit(SpawnAll(Store, seed, 1, Len(seed)))
    /\ lastOp' = [ op |-> "start", arg |-> << Len(seed) >>, ret |-> 0 ]
    /\ UNCHANGED pageVars
    /\ UNCHANGED << maxCells, worldSize, friction, globalMutationRate, foodAbundance,
                    frameCount, totalDeaths, speciesList, nextId, passIds, issued >>

\* the start handler (main.ts btnStart.onclick, SimulationController.start)
Start(seed) ==
    /\ lastOp.op = "new"
    /\ Seeded(seed)
    /\ UNCHANGED hostOps

\* a storage call that may have filled a slot: st is the storage it leaves
StoredEngine(st, op, arg) ==
    /\ Commit(st)
    /\ lastOp' = [ op |-> op, arg |-> arg, ret |-> st.ret ]
    /\ passIds' = IF st.ret # -1 THEN [ passIds EXCEPT ![st.ret] = 0 ] ELSE passIds
    /\ hostOps' = hostOps + 1
    /\ UNCHANGED << maxCells, worldSize, friction, globalMutationRate, foodAbundance,
                    frameCount, totalDeaths, speciesList, nextId, issued >>

\* the same call, made by a handler that leaves the page as it is
Stored(st, op, arg) == StoredEngine(st, op, arg) /\ UNCHANGED pageVars

\* the worker's "spawn" message: engine.storage.spawn(x, y, genome)
Spawn(x, y, genome) ==
    /\ lastOp.op # "new"
    /\ hostOps < MaxHostOps
    /\ Stored(spawn(Store, x, y, genome), "spawn", << x, y, genome >>)

\* storage.remove(idx) called by the host
Remove(idx) ==
    /\ lastOp.op # "new"
    /\ hostOps < MaxHostOps
    /\ Commit(remove(Store, idx))
    /\ lastOp' = [ op |-> "remove", arg |-> << idx >>, ret |-> 0 ]
    /\ UNCHANGED pageVars
    /\ passIds' = [ i \in Slots |-> IF i = idx THEN 0 ELSE passIds[i] ]
    /\ hostOps' = hostOps + 1
    /\ UNCHANGED << maxCells, worldSize, friction, globalMutationRate, foodAbundance,
                    frameCount, totalDeaths, speciesList, nextId, issued >>

\* storage.reproduce(parentIdx) called by the host on a live cell
Reproduce(parentIdx) ==
    /\ lastOp.op # "new"
    /\ hostOps < MaxHostOps
    /\ isActive[parentIdx] = 1
    /\ Stored(reproduce(Store, parentIdx), "reproduce", << parentIdx >>)

\* the end of Engine.update: s7 is the storage the frame leaves, sp the
\* tracker and the ids of the species step
LandedEngine(s7, sp, f, dt) ==
    /\ frameCount' = f
    /\ Commit(s7)
    /\ totalDeaths' = totalDeaths + s7.deaths
    /\ speciesList' = sp.tr.speciesList
    /\ nextId' = sp.tr.nextId
    /\ issued' = sp.tr.issued
    /\ passIds' = [ i \in Slots |->
                      IF s7.isActive[i] = 1 /\ s7.epoch[i] = epoch[i]
                      THEN sp.ids[i] ELSE 0 ]
    /\ lastOp' = [ op |-> "update", arg |-> << dt >>, ret |-> s7.deaths ]
    /\ UNCHANGED << maxCells, worldSize, friction, globalMutationRate,
                    foodAbundance, hostOps >>

Landed(s7, sp, f, dt) == LandedEngine(s7, sp, f, dt) /\ UNCHANGED pageVars

Ticked(sp, f, dt) == Landed(updateFrom(sp.st, f, dt), sp, f, dt)

\* Engine.update(dt): one tick
update(dt) ==
    Ticked(Surveyed([ Store EXCEPT !.grid = gridUpdate(cells, isActive) ],
                    Tracker, frameCount + 1),
           frameCount + 1, dt)

\* the worker's "update" message
Update(dt) ==
    /\ lastOp.op # "new"
    /\ frameCount < MaxTicks
    /\ update(dt)

Next ==
    \/ \E seed \in Seeds : Start(seed)
    \/ \E p \in HostPositions, g \in HostGenomes : Spawn(p[1], p[2], g)
    \/ \E i \in -1 .. maxCells : Remove(i)
    \/ \E i \in Slots : Reproduce(i)
    \/ \E dt \in HostDts : Update(dt)

Spec == Init /\ [][Next]_vars

----------------------------------------------------------------------------
(* The SpeciesTracker on its own: its three public methods in any order    *)

\* two genomes near the average one: 0.10 and 0.05 from it in one gene, and
\* 0.15 from each other (the threshold is 0.05 * sqrt(8) = 0.141 in one gene)
GenomeKin == << 60, 50, 50, 50, 50, 50, 50, 50 >>
GenomeCousin == << 45, 50, 50, 50, 50, 50, 50, 50 >>

TrackerGenomes == { GenomeAverage, GenomeRunner, GenomeTank, GenomeKin, GenomeCousin }

engineVars == << maxCells, worldSize, cells, nextCells, generations, isActive,
                 visualColors, allianceId, cooldowns, freeIndices, activeCount,
                 friction, globalMutationRate, foodAbundance, frameCount,
                 totalBirths, totalDeaths, gridCell, rng, events, passIds, epoch >>

\* a call on the tracker: tr is the tracker it leaves
CommitTracker(tr, op, arg) ==
    /\ speciesList' = tr.speciesList
    /\ nextId' = tr.nextId
    /\ issued' = tr.issued
    /\ lastOp' = [ op |-> op, arg |-> arg, ret |-> tr.ret ]
    /\ UNCHANGED pageVars
    /\ hostOps' = hostOps + 1
    /\ UNCHANGED engineVars

\* tracker.identify(genome); arg keeps the counter as it was before the call
TrackerIdentify(genome) ==
    /\ hostOps < MaxTrackerCalls
    /\ CommitTracker(identify(Tracker, genome), "identify", << genome, nextId >>)

TrackerResetCounts ==
    /\ hostOps < MaxTrackerCalls
    /\ CommitTracker(resetCounts(Tracker), "resetCounts", << >>)

TrackerPrune ==
    /\ hostOps < MaxTrackerCalls
    /\ CommitTracker(prune(Tracker), "prune", << >>)

TrackerInit == InitWith(MaxCells, { 0 })

TrackerNext ==
    \/ \E g \in TrackerGenomes : TrackerIdentify(g)
    \/ TrackerResetCounts
    \/ TrackerPrune

TrackerSpec == TrackerInit /\ [][TrackerNext]_vars

----------------------------------------------------------------------------
(* A world seeded while the frames are running                             *)

GenomeRaider == << 0, 60, 0, 0, 65, 100, 0, 50 >>

Repeat(n, e) == [ k \in 1 .. n |-> e ]

\* a runner, six raiders 40 units apart, sixteen tanks on one spot
SeedRaid ==
    << << 1000, 1000, GenomeRunner >>,
       << 1150, 1000, GenomeRaider >>, << 1150, 600, GenomeRaider >>,
       << 1150, 1400, GenomeRaider >>, << 1550, 1000, GenomeRaider >>,
       << 1550, 600, GenomeRaider >>, << 1550, 1400, GenomeRaider >> >>
    \o Repeat(16, << 650, 1350, GenomeTank >>)

\* sixteen tanks on one spot and two growers
SeedHerd ==
    Repeat(16, << 650, 1350, GenomeTank >>)
    \o << << 1150, 1000, GenomeGrower >>, << 1550, 1000, GenomeGrower >> >>

ColonySeeds == { SeedRaid, SeedHerd }

\* dt of a frame of these runs, in ms: the scripted runs of the repository
\* step the engine with dt = 0.2
ColonyDts == { 200 }

ColonyInit == InitWith(ColonyCells, RngSeeds)

\* the start handler, once, on an engine that has been running
LateStart(seed) ==
    /\ hostOps = 0
    /\ frameCount >= SeedAfter
    /\ Seeded(seed)
    /\ hostOps' = 1

\* one animation frame: the worker's "update" message
Frame(dt) ==
    /\ frameCount < MaxFrames
    /\ update(dt)

ColonyNext ==
    \/ \E seed \in ColonySeeds : LateStart(seed)
    \/ \E dt \in ColonyDts : Frame(dt)

ColonySpec == ColonyInit /\ [][ColonyNext]_vars


----------------------------------------------------------------------------
(* A world seeded herd by herd, up to the alliance pass of frame 120       *)

GenomeLitTank == << 0, 0, 50, 0, 100, 0, 0, 50 >>

\* a herd of n around (x, y): a sunlit tank on the spot and n - 1 tanks on a
\* lattice of 10 units, six to a row, each within 50 units of every other
HerdSpot(k, x, y) == << x - 25 * PS + ((k - 2) % 6) * 10 * PS,
                        y - 25 * PS + ((k - 2) \div 6) * 10 * PS, GenomeTank >>
Herd(n, x, y) == [ k \in 1 .. n |-> IF k = 1 THEN << x, y, GenomeLitTank >>
                                     ELSE HerdSpot(k, x, y) ]

\* the spots (tenths) the first, second and third herd are seeded on: the
\* third within 400 units of the first, or 450 units from it
HerdX == << { 1000 }, { 3000 }, { 4500, 5500 } >>
HerdSizes == { 16, 34 }
FusionDts == { 100 }

FusionInit == InitWith(FusionCells, RngSeeds)

\* the host spawns a herd in the frame before a swarm pass, one per pass
FusionStart(n, x) ==
    /\ hostOps < Len(HerdX)
    /\ hostOps = frameCount \div SWARM_INTERVAL
    /\ frameCount % SWARM_INTERVAL = SWARM_INTERVAL - 1
    /\ x \in HerdX[hostOps + 1]
    /\ Seeded(Herd(n, x, 1000))
    /\ hostOps' = hostOps + 1

\* the k-th of the tanks the host fills the store with: 200 units apart, ten
\* to a row, away from the herds
FillSpot(k) == << 1000 + ((k - 1) % 10) * 2000, 4000 + ((k - 1) \div 10) * 2000,
                  GenomeTank >>

\* the host spawns into every free slot in the frame before an alliance pass
FusionFill ==
    /\ hostOps = Len(HerdX)
    /\ frameCount % ALLIANCE_INTERVAL = ALLIANCE_INTERVAL - 1
    /\ Len(freeIndices) > 0
    /\ Seeded([ k \in 1 .. Len(freeIndices) |-> FillSpot(k) ])
    /\ hostOps' = hostOps + 1

\* one animation frame: the worker's "update" message
FusionFrame(dt) ==
    /\ frameCount < FusionFrames
    /\ update(dt)

FusionNext ==
    \/ \E n \in HerdSizes, x \in { 1000, 3000, 4500, 5500 } : FusionStart(n, x)
    \/ FusionFill
    \/ \E dt \in FusionDts : FusionFrame(dt)

FusionSpec == FusionInit /\ [][FusionNext]_vars


----------------------------------------------------------------------------
(* A small world of producers, up to their second litter                   *)

GenomeOvergrown == << 0, 0, 150, 0, 80, 0, 100, 50 >>

\* one producer in the sun, its genes within [0, 1] or not
ReproSeeds == { << << 1000, 1000, GenomeGrower >> >>,
                << << 1000, 1000, GenomeOvergrown >> >> }
ReproDts == { 200 }

ReproInit == InitWith(ReproCells, RngSeeds)

\* the start handler
ReproStart(seed) ==
    /\ lastOp.op = "new"
    /\ Seeded(seed)
    /\ UNCHANGED hostOps

\* one animation frame: the worker's "update" message
ReproFrame(dt) ==
    /\ lastOp.op # "new"
    /\ frameCount < ReproFrames
    /\ update(dt)

ReproNext ==
    \/ \E seed \in ReproSeeds : ReproStart(seed)
    \/ \E dt \in ReproDts : ReproFrame(dt)

ReproSpec == ReproInit /\ [][ReproNext]_vars

----------------------------------------------------------------------------
(* Spawns of mixes of low, threshold and high class genes                   *)

ArchLevels == { 60, 70, 90 }
ArchGenomes == { << s, a, 60, 50, d, 50, 0, 50 >> : s, a \in ArchLevels, d \in { 60, 70 } }

ArchInit == InitWith(ArchSpawns, RngSeeds)

\* the worker's "spawn" message
ArchSpawn(genome) ==
    /\ hostOps < ArchSpawns
    /\ Stored(spawn(Store, 1000, 1000, genome), "spawn", << 1000, 1000, genome >>)

ArchNext == \E genome \in ArchGenomes : ArchSpawn(genome)

ArchSpec == ArchInit /\ [][ArchNext]_vars

----------------------------------------------------------------------------
(* The settings messages of the host                                       *)

\* the values the host sends (hundredths): below, within and above the range
\* of each control; << >> is an option left out of the message
MutationRates == { << >>, << -50 >>, << 500 >>, << 1500 >> }
FoodAbundances == { << >>, << 5 >>, << 300 >>, << 900 >> }
Frictions == { << >>, << 50 >>, << 90 >>, << 120 >> }

SettingsMessages ==
    [ mutationRate : MutationRates, foodAbundance : FoodAbundances, friction : Frictions ]

\* the settings the engine holds
Settings ==
    [ globalMutationRate |-> globalMutationRate, foodAbundance |-> foodAbundance,
      friction |-> friction ]

SettingsInit == InitWith(MaxCells, RngSeeds)

\* engine.applySettings(settings)
AppliedEngine(settings) ==
    /\ globalMutationRate' = applySettings(Settings, settings).globalMutationRate
    /\ foodAbundance' = applySettings(Settings, settings).foodAbundance
    /\ friction' = applySettings(Settings, settings).friction
    /\ lastOp' = [ op |-> "applySettings", arg |-> << settings >>, ret |-> 0 ]
    /\ hostOps' = hostOps + 1
    /\ UNCHANGED << maxCells, worldSize, cells, nextCells, generations, isActive,
                    visualColors, allianceId, cooldowns, freeIndices, activeCount,
                    frameCount, totalBirths, totalDeaths, gridCell, speciesList,
                    nextId, rng, events, passIds, issued, epoch >>

\* the worker's "applySettings" message
ApplySettings(settings) ==
    /\ hostOps < SettingsCalls
    /\ AppliedEngine(settings)
    /\ UNCHANGED pageVars

SettingsNext == \E settings \in SettingsMessages : ApplySettings(settings)

SettingsSpec == SettingsInit /\ [][SettingsNext]_vars

----------------------------------------------------------------------------
(* A herd with one member off the spot, up to the first swarm frame        *)

\* fifteen tanks on one spot and a sixteenth 40 units east of it
SeedHuddle ==
    Repeat(15, << 1000, 1000, GenomeTank >>) \o << << 1400, 1000, GenomeTank >> >>

\* the same with the sixteenth 58 units east, in a bucket of the query of
\* radius 50 around the spot (the buckets of x in 40 .. 160)
SeedSprawl ==
    Repeat(15, << 1000, 1000, GenomeTank >>) \o << << 1580, 1000, GenomeTank >> >>

SwarmSeeds == { SeedHuddle, SeedSprawl }
SwarmDts == { 100 }

SwarmInit == InitWith(SwarmCells, RngSeeds)

\* the start handler
SwarmStart(seed) ==
    /\ lastOp.op = "new"
    /\ Seeded(seed)
    /\ UNCHANGED hostOps

\* one animation frame: the worker's "update" message
SwarmFrame(dt) ==
    /\ lastOp.op # "new"
    /\ frameCount < SwarmFrames
    /\ update(dt)

SwarmNext ==
    \/ \E seed \in SwarmSeeds : SwarmStart(seed)
    \/ \E dt \in SwarmDts : SwarmFrame(dt)

SwarmSpec == SwarmInit /\ [][SwarmNext]_vars


----------------------------------------------------------------------------
(* Three raiders that grow on a dead herd and are allied at frame 60       *)

GenomeLitRaider == << 0, 60, 25, 0, 65, 100, 0, 50 >>

\* n runners on one spot next to the first raider; a sunlit raider, a raider
\* on poisoned ground 80 units from it, and a second sunlit raider 80 units
\* from that one
SeedPact(n) ==
    Repeat(n, << 850, 1650, GenomeRunner >>)
    \o << << 900, 1700, GenomeLitRaider >>, << 1700, 1700, GenomeRaider >>,
          << 1700, 900, GenomeLitRaider >> >>

\* a hunter of SIZ 1.0 on poisoned ground with n runners 6 units below it, a
\* raider of DEF 0.5 and SIZ 1.0 within 12 units of the hunter, and a third
\* raider 50 units above
GenomeHungry == << 0, 60, 0, 100, 65, 100, 0, 50 >>
GenomeMeek == << 0, 60, 0, 100, 50, 100, 0, 50 >>

SeedFeud(n) ==
    Repeat(n, << 1700, 1760, GenomeRunner >>)
    \o << << 1700, 1700, GenomeHungry >>, << 1600, 1650, GenomeMeek >>,
          << 1700, 1200, GenomeRaider >> >>

\* two herds of sixteen 100 units apart and n - 32 tanks between them, in the
\* grid cell that the queries of both herds reach; none of them moves
SeedTwins(n) ==
    Repeat(16, << 650, 1350, GenomeLitTank >>)
    \o Repeat(n - 32, << 1100, 1350, GenomeLitTank >>)
    \o Repeat(16, << 1650, 1350, GenomeLitTank >>)

PactSeeds(n) == { SeedPact(n), SeedFeud(n), SeedTwins(n) }

PactRunners == { PactCells - 3, PactCells - 4 }

\* dt of a frame of these runs, in ms
PactDts == { 200 }

PactInit == InitWith(PactCells, RngSeeds)

\* the start handler, once, on an engine that has been running
PactStart(seed) ==
    /\ hostOps = 0
    /\ frameCount >= PactAfter
    /\ Seeded(seed)
    /\ hostOps' = 1

\* one animation frame: the worker's "update" message
PactFrame(dt) ==
    /\ frameCount < PactFrames
    /\ update(dt)

PactNext ==
    \/ \E n \in PactRunners : \E seed \in PactSeeds(n) : PactStart(seed)
    \/ \E dt \in PactDts : PactFrame(dt)

PactSpec == PactInit /\ [][PactNext]_vars


----------------------------------------------------------------------------
(* A runner that flees along a row, near and across the edges of the world *)

\* a raider 5.4 units behind a runner at (x, y): the runner flees along the
\* row, 19.6 units in a frame of 0.2 s
SeedEdge(x, y, side) == << << x, y, GenomeRunner >>, << x - side * 54, y, GenomeRaider >> >>

\* the runner comes to rest on x = W, beyond W, inside the world, and below 0
EdgeRuns == { << 19804, 1 >>, << 19904, 1 >>, << 19604, 1 >>, << 100, -1 >> }
EdgeRows == { 1000, 10000 }
EdgeDts == { 200 }

EdgeInit == InitWith(EdgeCells, RngSeeds)

\* the start handler, once
EdgeStart(run, y) ==
    /\ hostOps = 0
    /\ Seeded(SeedEdge(run[1], y, run[2]))
    /\ hostOps' = 1

\* one animation frame: the worker's "update" message
EdgeFrame(dt) ==
    /\ frameCount < EdgeFrames
    /\ update(dt)

EdgeNext ==
    \/ \E run \in EdgeRuns, y \in EdgeRows : EdgeStart(run, y)
    \/ \E dt \in EdgeDts : EdgeFrame(dt)

EdgeSpec == EdgeInit /\ [][EdgeNext]_vars



----------------------------------------------------------------------------
(* The page and its worker: main.ts and simWorker.ts                        *)

\* every variable but those of the page
simVars == << maxCells, worldSize, cells, nextCells, generations, isActive,
              visualColors, allianceId, cooldowns, freeIndices, activeCount,
              friction, globalMutationRate, foodAbundance, frameCount,
              totalBirths, totalDeaths, gridCell, speciesList, nextId, rng,
              events, lastOp, passIds, issued, epoch, hostOps >>

Msg(type, data) == [ type |-> type, data |-> data ]

\* what the user can do: the values of the controls, the cells a start
\* spawns, the world points clicked, the dt of a frame (ms, at most 100)
PageSettings ==
    { [ mutationRate |-> << 100 >>, foodAbundance |-> << 100 >>, friction |-> << 98 >> ],
      [ mutationRate |-> << 200 >>, foodAbundance |-> << 50 >>, friction |-> << 90 >> ] }
PageSeeds ==
    { << >>, << << 1000, 1000, GenomeTank >> >>,
      << << 1000, 1000, GenomeTank >>, << 1300, 1000, GenomeRunner >> >> }
ClickPoints == { << 1100, 1000 >>, << 15000, 15000 >> }
PageDts == { 100 }

\* the page as start() of main.ts leaves it: "init" posted, nothing handled
Loaded ==
    /\ isWorkerReady = FALSE
    /\ isSimulationRunning = FALSE
    /\ followingIdx = -1
    /\ inspectedCell = NoCell
    /\ toWorker = << Msg("init", << >>) >>
    /\ toMain = << >>
    /\ engine = "undefined"
    /\ threw = FALSE
    /\ posted = 1

\* the engine variables hold what new Engine will make of them
PageInit == Constructed(MaxCells, { 0 }) /\ Loaded

\* worker.postMessage, once per message of msgs
Post(msgs) ==
    /\ toWorker' = toWorker \o msgs
    /\ posted' = posted + Len(msgs)

\* a start handler without its guard
CanStartUnready == TRUE

\* the guard of btnStart.onclick
CanStart == isWorkerReady

\* the canvas click handler
CanvasClick(p) ==
    /\ isSimulationRunning
    /\ posted < MaxPosted
    /\ Post(<< Msg("inspect", [ x |-> p[1], y |-> p[2], followedIdx |-> -1 ]) >>)
    /\ UNCHANGED << isWorkerReady, isSimulationRunning, followingIdx, inspectedCell,
                    toMain, engine, threw >>
    /\ UNCHANGED simVars

\* btnStart.onclick
BtnStart(settings, seed) ==
    /\ CanStart
    /\ posted + 1 + Len(seed) <= MaxPosted
    /\ Post(<< Msg("applySettings", settings) >>
            \o [ k \in 1 .. Len(seed) |-> Msg("spawn", seed[k]) ])
    /\ isSimulationRunning' = TRUE
    /\ UNCHANGED << isWorkerReady, followingIdx, inspectedCell, toMain, engine, threw >>
    /\ UNCHANGED simVars

\* btnFollow.onclick
BtnFollow ==
    /\ inspectedCell # NoCell
    /\ followingIdx' = inspectedCell.idx
    /\ UNCHANGED << isWorkerReady, isSimulationRunning, inspectedCell, toWorker, toMain,
                    engine, threw, posted >>
    /\ UNCHANGED simVars

\* btnCloseInspect.onclick
BtnCloseInspect ==
    /\ followingIdx' = -1
    /\ UNCHANGED << isWorkerReady, isSimulationRunning, inspectedCell, toWorker, toMain,
                    engine, threw, posted >>
    /\ UNCHANGED simVars

\* an animation frame that posts: loop()
Loop(dt) ==
    /\ isSimulationRunning /\ isWorkerReady
    /\ posted < MaxPosted
    /\ Post(<< Msg("update", dt) >>)
    /\ UNCHANGED << isWorkerReady, isSimulationRunning, followingIdx, inspectedCell,
                    toMain, engine, threw >>
    /\ UNCHANGED simVars

\* worker.onmessage of the main thread, on the oldest reply
WorkerOnmessage ==
    /\ toMain # << >>
    /\ toMain' = Tail(toMain)
    /\ isWorkerReady' = (isWorkerReady \/ Head(toMain).type = "ready")
    /\ IF Head(toMain).type = "renderData" /\ followingIdx # -1
       THEN /\ posted < MaxPosted
            /\ Post(<< Msg("inspect", [ x |-> inspectedCell.x, y |-> inspectedCell.y,
                                        followedIdx |-> followingIdx ]) >>)
       ELSE UNCHANGED << toWorker, posted >>
    /\ inspectedCell' = IF Head(toMain).type = "inspectionResults"
                           /\ Head(toMain).data # NoCell
                        THEN Head(toMain).data ELSE inspectedCell
    /\ UNCHANGED << isSimulationRunning, followingIdx, engine, threw >>
    /\ UNCHANGED simVars

\* a handler of the worker reads the engine before "init": a TypeError
Thrown ==
    /\ threw' = TRUE
    /\ UNCHANGED << toMain, engine >>
    /\ UNCHANGED simVars

\* self.onmessage of the worker for the message m
Handle(m) ==
    CASE m.type = "init" ->
           /\ engine' = "Engine"
           /\ toMain' = Append(toMain, Msg("ready", << >>))
           /\ UNCHANGED threw
           /\ UNCHANGED simVars
      [] m.type = "spawn" ->
           IF engine = "undefined" THEN Thrown
           ELSE /\ StoredEngine(spawn(Store, m.data[1], m.data[2], m.data[3]),
                                "spawn", m.data)
                /\ UNCHANGED << toMain, engine, threw >>
      [] m.type = "applySettings" ->
           IF engine = "undefined" THEN Thrown
           ELSE /\ AppliedEngine(m.data)
                /\ UNCHANGED << toMain, engine, threw >>
      [] m.type = "inspect" ->
           IF engine = "undefined" THEN Thrown
           ELSE /\ toMain' = Append(toMain,
                        Msg("inspectionResults",
                            getNearestCell(Store, m.data.x, m.data.y, m.data.followedIdx)))
                /\ UNCHANGED << engine, threw >>
                /\ UNCHANGED simVars
      [] m.type = "update" ->
           IF engine = "undefined" THEN Thrown
           ELSE /\ LandedEngine(updateFrom(Surveyed([ Store EXCEPT
                                                       !.grid = gridUpdate(cells, isActive) ],
                                                     Tracker, frameCount + 1).st,
                                            frameCount + 1, m.data),
                                Surveyed([ Store EXCEPT
                                             !.grid = gridUpdate(cells, isActive) ],
                                         Tracker, frameCount + 1),
                                frameCount + 1, m.data)
                /\ toMain' = Append(toMain, Msg("renderData", activeCount'))
                /\ UNCHANGED << engine, threw >>

\* self.onmessage of the worker, on the oldest message
SelfOnmessage ==
    /\ toWorker # << >>
    /\ toWorker' = Tail(toWorker)
    /\ Handle(Head(toWorker))
    /\ UNCHANGED << isWorkerReady, isSimulationRunning, followingIdx, inspectedCell,
                    posted >>

PageNext ==
    \/ \E p \in ClickPoints : CanvasClick(p)
    \/ \E settings \in PageSettings, seed \in PageSeeds : BtnStart(settings, seed)
    \/ BtnFollow
    \/ BtnCloseInspect
    \/ \E dt \in PageDts : Loop(dt)
    \/ WorkerOnmessage
    \/ SelfOnmessage

PageSpec == PageInit /\ [][PageNext]_vars
(* Properties of the slot store                                            *)

ActiveSlots == { i \in Slots : isActive[i] = 1 }
FreeSlots == { freeIndices[k] : k \in 1 .. Len(freeIndices) }

\* the storage fields a rejected call must leave alone
storeVars == << cells, nextCells, generations, isActive, visualColors, allianceId,
                cooldowns, freeIndices, activeCount, totalBirths, rng, epoch >>

SumEpoch(i) == SeqSum([ k \in 1 .. maxCells - i |-> epoch[i + k - 1] ])

\* C1: after every spawn, reproduce, remove and tick a slot is active exactly
\* when it is not on the free list, the free list holds no index twice,
\* activeCount is the number of active slots, and activeCount plus the length
\* of the free list is the capacity.
C1_Partition ==
    /\ \A i \in Slots : (isActive[i] = 1) <=> (i \notin FreeSlots)
    /\ \A j, k \in 1 .. Len(freeIndices) : freeIndices[j] = freeIndices[k] => j = k
    /\ activeCount = Cardinality(ActiveSlots)
    /\ activeCount + Len(freeIndices) = maxCells

\* a tick in which cells died while others lived on
C1_Witness ==
    /\ lastOp.op = "update" /\ lastOp.ret > 0
    /\ activeCount > 0 /\ Len(freeIndices) > 0

\* C3: a spawn on a full store returns -1, changes no stored value and
\* emits no event.
C3_SpawnWhenFull ==
    [][ (lastOp'.op = "spawn" /\ hostOps' # hostOps /\ Len(freeIndices) = 0)
        => (lastOp'.ret = -1 /\ UNCHANGED storeVars /\ events' = << >>) ]_vars

\* the host has just been refused a spawn by a full store
C3_Witness ==
    /\ lastOp.op = "spawn" /\ lastOp.ret = -1
    /\ activeCount = maxCells

\* C4: a remove of an index outside the store or of an inactive slot changes
\* nothing, and in every state a second remove(i) leaves exactly what the
\* first one left (so no index is pushed on the free list twice).
C4_RemoveNoOp ==
    /\ [][ (lastOp'.op = "remove" /\ hostOps' # hostOps
            /\ (lastOp'.arg[1] \notin Slots \/ isActive[lastOp'.arg[1]] = 0))
           => (UNCHANGED storeVars /\ events' = << >>) ]_vars
    /\ [](\A idx \in -1 .. maxCells :
             remove(remove(Store, idx), idx) = remove(Store, idx))

\* the host has just removed a slot whose cell had died in a tick before:
\* every cell ever spawned is either counted active or counted dead
C4_Witness ==
    /\ lastOp.op = "remove" /\ lastOp.arg[1] \in Slots
    /\ epoch[lastOp.arg[1]] > 0
    /\ totalDeaths > 0
    /\ activeCount = SumEpoch(0) - totalDeaths

----------------------------------------------------------------------------
(* Properties of the cells at tick boundaries                              *)

\* C2: once a slot has been removed, and until a spawn reuses it, every value
\* kept for it reads zero in both buffers: position, velocity, energy, mass,
\* archetype, species slot, genome, generation and cooldown (alliance: none).
C2_RemovedReadsZero ==
    \A i \in Slots :
        (isActive[i] = 0 /\ epoch[i] > 0)
        => /\ cells[i] = ZeroCell
           /\ nextCells[i] = ZeroCell
           /\ generations[i] = 0
           /\ cooldowns[i] = 0
           /\ allianceId[i] = -1

\* C5: at every tick boundary every active agent has energy > 0.
C5_EnergyPositive == \A i \in ActiveSlots : cells[i].energy > 0

\* C6: at every tick boundary every active agent has mass >= 1.0.
C6_MassAtLeastOne == \A i \in ActiveSlots : cells[i].mass >= 1 * ES

\* C7: every genome entry of every active agent lies in [0, 1].
C7_GenomeInRange ==
    \A i \in ActiveSlots : \A k \in 1 .. 8 :
        cells[i].genome[k] >= 0 /\ cells[i].genome[k] <= GS

TrackedIds == { speciesList[k].id : k \in 1 .. Len(speciesList) }

\* C8: at every tick boundary the species slot of every active agent holds -1
\* or the id of a species present in the tracker.
C8_SpeciesIdKnown ==
    \A i \in ActiveSlots : cells[i].meta = -1 \/ cells[i].meta \in TrackedIds

\* C9: an agent alive since the last species pass reads, at every tick
\* boundary up to the next pass, the id that pass gave it.
C9_KeepsSpeciesId ==
    \A i \in ActiveSlots : passIds[i] # 0 => cells[i].meta = passIds[i]

----------------------------------------------------------------------------
(* Properties of the species tracker                                       *)

\* C10: the ids the tracker issues are strictly increasing in the order of
\* issue (so none is issued twice), whatever resetCounts, identify and prune
\* calls came before, also after the species holding an id was pruned.
C10_IdsIncrease ==
    \A j, k \in 1 .. Len(issued) : j < k => issued[j] < issued[k]

\* identify has just created a species while an id issued earlier is no
\* longer in the list
C10_Witness ==
    /\ lastOp.op = "identify"
    /\ lastOp.ret = lastOp.arg[2]
    /\ \E k \in 1 .. Len(issued) :
          issued[k] < lastOp.ret /\ issued[k] \notin TrackedIds

----------------------------------------------------------------------------
(* Properties of what the host reads                                       *)

\* C11: in every state the 8 buckets of the telemetry's gene histogram sum to
\* activeCount, the 5 buckets of its archetype distribution sum to activeCount,
\* and its alive count is activeCount, the number of active slots.
C11_TelemetrySums ==
    /\ SeqSum(getTelemetry(Store).histogram) = activeCount
    /\ SeqSum(getTelemetry(Store).archetypes) = activeCount
    /\ getTelemetry(Store).alive = activeCount
    /\ getTelemetry(Store).alive = Cardinality(ActiveSlots)

\* telemetry read after a tick that left cells of two dominant genes and of a
\* class other than average, next to a slot whose cell has died
C11_Witness ==
    /\ lastOp.op = "update"
    /\ \E g, h \in 1 .. 8 : /\ g # h
                            /\ getTelemetry(Store).histogram[g] > 0
                            /\ getTelemetry(Store).histogram[h] > 0
    /\ \E a \in 2 .. 5 : getTelemetry(Store).archetypes[a] > 0
    /\ \E i \in Slots : isActive[i] = 0 /\ epoch[i] > 0

----------------------------------------------------------------------------
(* Properties of the accounting                                            *)

\* the agents ever spawned, given the spawns counted per slot
Spawned(ep) == SeqSum([ k \in 1 .. maxCells |-> ep[k - 1] ])

\* the colony and fusion events among the events of a handler
Fuses(evs) == Cardinality({ k \in 1 .. Len(evs) : evs[k].type \in { "colony", "fusion" } })

\* C12: every agent removed during a tick is counted: the deaths counter grows
\* in a tick by the number of agents the tick removed (eaten prey included),
\* a fuse of n members counting for n - 1.
C12_DeathsCoverRemovals ==
    [][ lastOp'.op = "update"
        => totalDeaths' - totalDeaths
             = (activeCount + (Spawned(epoch') - Spawned(epoch)) - activeCount')
               - Fuses(events') ]_vars

----------------------------------------------------------------------------
(* Properties of the fuses                                                 *)

\* the storage as step 6 of Engine.update finds it in the tick of frame f
BeforeSwarm(f, dt) ==
    swapBuffers(boundaryCheck(updatePositions(
        ProcessCells([ Surveyed([ Store EXCEPT !.grid = gridUpdate(cells, isActive) ],
                                Tracker, f).st EXCEPT !.deaths = 0 ],
                     0, maxCells - 1, dt), dt)))

MassOf(st, members) == SeqSum([ k \in 1 .. Len(members) |-> st.cells[members[k]].mass ])

TopEnergy(st, members) ==
    CHOOSE e \in { st.cells[members[k]].energy : k \in 1 .. Len(members) } :
        \A k \in 1 .. Len(members) : st.cells[members[k]].energy <= e

\* the colony that replaces a cluster takes the slot of the member removed last
ColonyAdds(pre, post, cluster) ==
    /\ post.isActive[cluster[Len(cluster)]] = 1
    /\ post.cells[cluster[Len(cluster)]].mass = MassOf(pre, cluster)
    /\ post.cells[cluster[Len(cluster)]].energy
         = TopEnergy(pre, cluster) + 10 * MassOf(pre, cluster)

ColoniesAdd(pre, post, clusters) ==
    \A k \in 1 .. Len(clusters) : ColonyAdds(pre, post, clusters[k])

SwarmAdds(pre) ==
    ColoniesAdd(pre, checkSwarmDensity(pre), ClustersOf(pre))

HasEvent(evs, type) == \E k \in 1 .. Len(evs) : evs[k].type = type

\* three colonies fused: an agent of 1.1 times their mass (to the rounding of
\* the store) is there and the three are gone
FusionAdds(mid, post, colonies) ==
    (Len(colonies) = 3 /\ HasEvent(post.events, "fusion"))
    => /\ \E i \in Slots :
            /\ post.isActive[i] = 1
            /\ Abs(10 * post.cells[i].mass - 11 * MassOf(mid, colonies)) < 10
       /\ \A k \in 1 .. 3 : post.isActive[colonies[k]] = 0

AlliancesAdd(mid) == FusionAdds(mid, updateAlliances(mid), Colonies(mid, 0))

\* C13: in the tick of a swarm frame each colony formed has the mass of its
\* cluster's members summed and the largest member energy plus 10 times that
\* sum; in the tick of an alliance frame the super-colony fused from three
\* colonies has 1.1 times the sum of their masses.
C13_FusedTotals ==
    \A dt \in FusionDts :
        /\ IsSwarmFrame(frameCount + 1) => SwarmAdds(BeforeSwarm(frameCount + 1, dt))
        /\ IsAllianceFrame(frameCount + 1)
             => AlliancesAdd(checkSwarmDensity(BeforeSwarm(frameCount + 1, dt)))

\* the alliance pass has fused three colonies formed by earlier swarm passes
C13_Witness ==
    /\ lastOp.op = "update"
    /\ HasEvent(events, "fusion")
    /\ \E i \in ActiveSlots : cells[i].mass > FUSION_MASS * ES


----------------------------------------------------------------------------
(* Properties of the reproduction step                                     *)

\* the storage as processCell finds it for slot i in the tick of frame f
BeforeCell(i, f, dt) ==
    ProcessCells([ Surveyed([ Store EXCEPT !.grid = gridUpdate(cells, isActive) ],
                            Tracker, f).st EXCEPT !.deaths = 0 ],
                 0, i - 1, dt)

\* slot i is updated in that tick and reaches "3. Evolution"
Evolves(mid, i) ==
    /\ mid.isActive[i] = 1
    /\ ~(mid.cells[i].mass > 1500 /\ mid.cells[i].mass < 10 * ES)

\* the slots filled between two storages
Newborns(pre, post) == { c \in Slots : pre.isActive[c] = 0 /\ post.isActive[c] = 1 }

\* gene k of the child is within MUT * 0.1 * rate of the parent's, and in [0, 1]
GeneNear(child, parent, k) ==
    /\ child[k] >= 0
    /\ child[k] <= GS
    /\ 1000 * Abs(child[k] - parent[k]) <= parent[gMUT] * globalMutationRate

\* the step of lines 521-536 from r = [st, energy] for a parent above the
\* reproduction energy
ReproOK(r, post, i) ==
    IF Len(r.st.freeIndices) > 0
    THEN /\ Cardinality(Newborns(r.st, post)) = 1
         /\ post.activeCount = r.st.activeCount + 1
         /\ \A c \in Newborns(r.st, post) :
              /\ post.generations[c] = r.st.generations[i] + 1
              /\ \A k \in 1 .. 8 : GeneNear(post.cells[c].genome, r.st.cells[i].genome, k)
         /\ post.isActive[i] = 1
         /\ post.cells[i].energy = r.energy - 80 * ES
         /\ post.totalBirths = r.st.totalBirths + 1
    ELSE /\ Newborns(r.st, post) = {}
         /\ post.activeCount = r.st.activeCount
         /\ post.totalBirths = r.st.totalBirths

ReproStep(mid, i, dt) ==
    (Evolves(mid, i) /\ Ready(mid, i, mid.cells[i], dt).energy > REPRO_ENERGY * ES)
    => ReproOK(Ready(mid, i, mid.cells[i], dt),
               Evolve(Ready(mid, i, mid.cells[i], dt), i), i)

\* C14: in every tick, a cell whose energy is above 150 when it reaches its
\* reproduction step gets exactly one child when a slot is free (generation
\* one more than the parent's, each gene within MUT * 0.1 * rate of the
\* parent's and in [0, 1]), loses 80 energy and adds 1 to the births counter;
\* when no slot is free there is no child and the births counter is unchanged.
C14_Reproduction ==
    \A dt \in ReproDts : \A i \in Slots :
        ReproStep(BeforeCell(i, frameCount + 1, dt), i, dt)

\* a tick is about to have a parent reproduce with a slot free
C14_Witness ==
    \E dt \in ReproDts : \E i \in Slots :
        /\ Evolves(BeforeCell(i, frameCount + 1, dt), i)
        /\ Ready(BeforeCell(i, frameCount + 1, dt), i,
                 BeforeCell(i, frameCount + 1, dt).cells[i], dt).energy > REPRO_ENERGY * ES
        /\ Len(Ready(BeforeCell(i, frameCount + 1, dt), i,
                     BeforeCell(i, frameCount + 1, dt).cells[i], dt).st.freeIndices) > 0

\* a tick is about to have a parent above the reproduction energy with no slot free
C14_WitnessFull ==
    \E dt \in ReproDts : \E i \in Slots :
        /\ Evolves(BeforeCell(i, frameCount + 1, dt), i)
        /\ Ready(BeforeCell(i, frameCount + 1, dt), i,
                 BeforeCell(i, frameCount + 1, dt).cells[i], dt).energy > REPRO_ENERGY * ES
        /\ Len(Ready(BeforeCell(i, frameCount + 1, dt), i,
                     BeforeCell(i, frameCount + 1, dt).cells[i], dt).st.freeIndices) = 0

----------------------------------------------------------------------------
(* Properties of the visual class                                          *)

\* the class index of the largest of SPD, AGG, PHO, DEF when it reaches 0.7,
\* the first of them in that order among equals; 0 (average) below 0.7
FirstLargest(genome) ==
    IF Max(Max(genome[gSPD], genome[gAGG]), Max(genome[gPHO], genome[gDEF])) < 70 THEN 0
    ELSE IF genome[gSPD] >= Max(genome[gAGG], Max(genome[gPHO], genome[gDEF])) THEN 4
    ELSE IF genome[gAGG] >= Max(genome[gPHO], genome[gDEF]) THEN 1
    ELSE IF genome[gPHO] >= genome[gDEF] THEN 2
    ELSE 3

\* C15: the class written by a spawn is average when the largest of SPD, AGG,
\* PHO, DEF is below 0.7 and otherwise the class of the largest of the four, a
\* gene of exactly 0.7 qualifying and equal maxima resolved in the order SPD,
\* AGG, PHO, DEF; deriving the class again from the stored genome gives the
\* same class.
C15_ArchetypeAtSpawn ==
    (lastOp.op = "spawn" /\ lastOp.ret # -1)
    => /\ cells[lastOp.ret].archIdx = FirstLargest(lastOp.arg[3])
       /\ Archetype(cells[lastOp.ret].genome) = cells[lastOp.ret].archIdx

----------------------------------------------------------------------------
(* Properties of the inspection                                            *)

\* the points the host inspects (tenths) and the hints it passes
InspectPoints == { << 1000, 1000 >>, << 1500, 1000 >> }
InspectHints == -1 .. maxCells

\* the active slots within 100 units of (x, y)
Within100(x, y) ==
    { i \in ActiveSlots : DistSq(Store, i, x, y) <= (100 * PS) * (100 * PS) }

\* the answer for a hint that names no live cell: none when nothing is within
\* 100 units, otherwise a closest of the active cells within 100 units
ClosestAnswer(r, x, y) ==
    IF Within100(x, y) = {} THEN r = NoCell
    ELSE /\ r # NoCell
         /\ r.idx \in Within100(x, y)
         /\ r = Snapshot(Store, r.idx)
         /\ \A i \in Within100(x, y) : DistSq(Store, r.idx, x, y) <= DistSq(Store, i, x, y)

\* C16: in every state, getNearestCell answers with the snapshot of the hinted
\* cell when the hint names a live cell, and otherwise with the snapshot of
\* the active cell closest to the point among those within 100 units, with
\* no cell only when no active cell is within 100 units.
C16_Nearest ==
    \A p \in InspectPoints : \A h \in InspectHints :
        IF h \in ActiveSlots
        THEN getNearestCell(Store, p[1], p[2], h) = Snapshot(Store, h)
        ELSE ClosestAnswer(getNearestCell(Store, p[1], p[2], h), p[1], p[2])

----------------------------------------------------------------------------
(* Properties of the order of the updates within a tick                    *)

\* the slots another cell has removed (eaten or absorbed) in the tick of frame
\* f before slot k is reached, and that are still empty when it is reached
EatenBefore(k, f, dt) ==
    { j \in Slots :
        /\ BeforeCell(k, f, dt).isActive[j] = 0
        /\ \E i \in 0 .. k - 1 :
              /\ i # j
              /\ BeforeCell(i, f, dt).isActive[i] = 1
              /\ BeforeCell(i, f, dt).isActive[j] = 1
              /\ BeforeCell(i + 1, f, dt).isActive[j] = 0 }

\* the storage without the slots of D in the flat array of the grid
Purged(st, D) ==
    [ st EXCEPT !.grid.grid = SelectSeq(@, LAMBDA n : n \notin D) ]

\* the update of slot k has nothing to do with the slots of D: none of them is
\* changed, none is a target, and the update is the one of a query that does
\* not hand them to the callback
Ignores(mid, k, D, dt) ==
    /\ \A j \in D : /\ Sensed(mid, k, mid.cells[k], dt).st.cells[j] = mid.cells[j]
                    /\ Sensed(mid, k, mid.cells[k], dt).bestTarget # j
                    /\ Sensed(mid, k, mid.cells[k], dt).fleeTarget # j
    /\ [ Sensed(mid, k, mid.cells[k], dt) EXCEPT !.st.grid = mid.grid ]
         = [ Sensed(Purged(mid, D), k, mid.cells[k], dt) EXCEPT !.st.grid = mid.grid ]

\* C17: in the tick about to run, once a cell has removed slot j, no cell
\* updated later interacts with j (j is not absorbed, drained, given energy or
\* taken as a hunt or flee target) and the empty slot j is not updated itself.
C17_RemovedUnseen ==
    \A dt \in HostDts : \A k \in Slots :
        /\ k \in EatenBefore(k, frameCount + 1, dt)
             => ProcessCells(BeforeCell(k, frameCount + 1, dt), k, k, dt)
                  = BeforeCell(k, frameCount + 1, dt)
        /\ (BeforeCell(k, frameCount + 1, dt).isActive[k] = 1
            /\ Evolves(BeforeCell(k, frameCount + 1, dt), k))
             => Ignores(BeforeCell(k, frameCount + 1, dt), k,
                        EatenBefore(k, frameCount + 1, dt), dt)

\* a tick is about to have a cell removed by another and a cell updated later
C17_Witness ==
    \E dt \in HostDts : \E k \in Slots :
        /\ EatenBefore(k, frameCount + 1, dt) # {}
        /\ BeforeCell(k, frameCount + 1, dt).isActive[k] = 1

----------------------------------------------------------------------------
(* Properties of the extinct world                                         *)

\* C18: a tick that starts with no active cell ends with no active cell, no
\* slot active, and the births and deaths counters as they were.
C18_ExtinctionAbsorbing ==
    [][ (activeCount = 0 /\ frameCount' = frameCount + 1)
          => /\ lastOp'.op = "update"
             /\ activeCount' = 0
             /\ \A i \in Slots : isActive'[i] = 0
             /\ totalBirths' = totalBirths
             /\ totalDeaths' = totalDeaths ]_vars

\* a second tick has ended in a world that had lost all its cells
C18_Witness ==
    /\ lastOp.op = "update"
    /\ lastOp.ret = 0
    /\ frameCount >= 2
    /\ activeCount = 0
    /\ totalDeaths > 0

----------------------------------------------------------------------------
(* Properties of the events                                                *)

\* the number of events of a type among the events of a handler
EventsOf(evs, type) == Cardinality({ k \in 1 .. Len(evs) : evs[k].type = type })

\* the agents a step has removed: those there before and those spawned by
\* the step, less those left
RemovedIn(count, spawns, left) == count + spawns - left

\* C19: the events of a tick hold a birth event for each reproduction that
\* found a slot, a death event for each agent the tick removed, and one
\* extinction milestone when the tick takes the active count from positive
\* to 0 for the first time.
C19_LifeCycleEvents ==
    [][ lastOp'.op = "update"
          => /\ EventsOf(events', "birth") = totalBirths' - totalBirths
             /\ EventsOf(events', "death")
                  = RemovedIn(activeCount, Spawned(epoch') - Spawned(epoch), activeCount')
             /\ (hostOps = 0 /\ activeCount > 0 /\ activeCount' = 0)
                  => EventsOf(events', "milestone") = 1 ]_vars

----------------------------------------------------------------------------
(* Properties of the settings                                              *)

Clamped(v, lo, hi) == Max(lo, Min(hi, v))

\* the setting a message leaves: the given value brought into lo .. hi, the
\* previous value when the option is left out
Configured(option, previous, lo, hi) ==
    IF option = << >> THEN previous ELSE Clamped(option[1], lo, hi)

\* C20: after applySettings the mutation rate is the given one brought into
\* [0, 10], the food abundance the given one brought into [0.1, 5] and the
\* friction the given one brought into [0.80, 1.00]; an option that is not
\* given keeps its previous value.
C20_SettingsClamped ==
    [][ lastOp'.op = "applySettings"
          => /\ globalMutationRate'
                  = Configured(lastOp'.arg[1].mutationRate, globalMutationRate, 0, 1000)
             /\ foodAbundance'
                  = Configured(lastOp'.arg[1].foodAbundance, foodAbundance, 10, 500)
             /\ friction'
                  = Configured(lastOp'.arg[1].friction, friction, 80, 100) ]_vars

----------------------------------------------------------------------------
(* Properties of the spawn of a degenerate genome                          *)

\* C21: a spawn of a genome whose eight genes are all zero is refused: it
\* returns -1 and leaves the active count, the free list and every slot as
\* they were.
C21_ZeroGenomeRefused ==
    [][ (lastOp'.op = "spawn" /\ hostOps' # hostOps /\ lastOp'.arg[3] = ZeroGenome)
        => (lastOp'.ret = -1 /\ UNCHANGED storeVars) ]_vars

----------------------------------------------------------------------------
(* Properties of the schedule of the passes                                *)

\* the species pass on tick n: run when n = 1 or n is a multiple of 60
SpeciesStep(s1, tr, n) ==
    IF n = 1 \/ n % 60 = 0 THEN updateSpecies(s1, tr)
    ELSE [ st |-> s1, tr |-> tr, ids |-> passIds ]

\* the colony pass on tick n: run when n is a multiple of 30
ColonyStep(st, n) == IF n % 30 = 0 THEN checkSwarmDensity(st) ELSE st

\* the alliance pass on tick n: run when n is a multiple of 60
AllianceStep(st, n) == IF n % 60 = 0 THEN updateAlliances(st) ELSE st

\* the storage tick n leaves when the steps run in the order grid rebuild,
\* species pass, per-agent update, integration and boundary, colony pass,
\* alliance pass; sp is what the species pass left
AfterSpecies(sp, n, dt) ==
    AllianceStep(ColonyStep(swapBuffers(boundaryCheck(updatePositions(
        ProcessCells([ sp.st EXCEPT !.deaths = 0 ], 0, maxCells - 1, dt), dt))), n), n)

\* the species pass of tick n on the rebuilt grid
SpeciesOf(n) == SpeciesStep([ Store EXCEPT !.grid = gridUpdate(cells, isActive) ], Tracker, n)

\* C22: tick n (the n-th update) runs the species pass exactly when n = 1 or
\* n is a multiple of 60, the colony pass exactly when n is a multiple of 30
\* and the alliance pass exactly when n is a multiple of 60, in the order grid
\* rebuild, species pass, per-agent update, integration and boundary, colony
\* pass, alliance pass: what the update leaves is what these steps leave.
C22_PassSchedule ==
    [][ lastOp'.op = "update"
          => \E sp \in { SpeciesOf(frameCount + 1) } :
             \E s7 \in { AfterSpecies(sp, frameCount + 1, lastOp'.arg[1]) } :
                /\ frameCount' = frameCount + 1
                /\ cells' = s7.cells
                /\ nextCells' = s7.nextCells
                /\ isActive' = s7.isActive
                /\ allianceId' = s7.allianceId
                /\ activeCount' = s7.activeCount
                /\ events' = s7.events
                /\ gridCell' = s7.grid
                /\ speciesList' = sp.tr.speciesList
                /\ nextId' = sp.tr.nextId ]_vars

\* tick 60 has run the colony pass and formed a colony; it is also a tick of
\* the species and alliance passes
C22_Witness ==
    /\ lastOp.op = "update"
    /\ frameCount = 60
    /\ HasEvent(events, "colony")
    /\ Len(speciesList) > 0

----------------------------------------------------------------------------
(* Properties of the genome of a colony                                    *)

\* the member of a cluster with the highest energy, the first of them in the
\* order of the cluster
MostEnergetic(st, cluster) ==
    cluster[CHOOSE k \in 1 .. Len(cluster) :
                /\ st.cells[cluster[k]].energy = TopEnergy(st, cluster)
                /\ \A j \in 1 .. k - 1 : st.cells[cluster[j]].energy < TopEnergy(st, cluster)]

\* the colony that replaces a cluster has the genes of that member and the
\* class derived from them
ColonyInherits(pre, post, cluster) ==
    /\ post.isActive[cluster[Len(cluster)]] = 1
    /\ post.cells[cluster[Len(cluster)]].genome
         = pre.cells[MostEnergetic(pre, cluster)].genome
    /\ post.cells[cluster[Len(cluster)]].archIdx
         = Archetype(pre.cells[MostEnergetic(pre, cluster)].genome)

SwarmInherits(pre) ==
    \A k \in 1 .. Len(ClustersOf(pre)) :
        ColonyInherits(pre, checkSwarmDensity(pre), ClustersOf(pre)[k])

\* C23: in the tick of a swarm frame each colony formed carries the eight
\* genes its cluster's most energetic member had before it was removed, and
\* the class derived from them.
C23_ColonyGenome ==
    \A dt \in ColonyDts :
        IsSwarmFrame(frameCount + 1) => SwarmInherits(BeforeSwarm(frameCount + 1, dt))

----------------------------------------------------------------------------
(* Properties of the fragmentation                                         *)

\* slot i is reached by the loop holding an agent that breaks apart
Fragments(mid, i) ==
    /\ mid.isActive[i] = 1
    /\ mid.cells[i].mass > 1500 /\ mid.cells[i].mass < 10 * ES

\* the slots a step has spawned into
SpawnedInto(pre, post) == { c \in Slots : post.epoch[c] # pre.epoch[c] }

\* the agent of slot i is gone, min(5, floor(mass / 2)) children are there with
\* its genes, and nothing else of the update of a cell has run
Dissolved(mid, post, i) ==
    /\ Cardinality(SpawnedInto(mid, post)) = Min(5, Floor(mid.cells[i].mass, 2 * ES))
    /\ post.activeCount = mid.activeCount - 1 + Cardinality(SpawnedInto(mid, post))
    /\ \A c \in SpawnedInto(mid, post) :
          /\ post.isActive[c] = 1
          /\ post.cells[c].genome = mid.cells[i].genome
          /\ post.cells[c].energy = 100 * ES
          /\ post.cells[c].mass = 1 * ES
    /\ i \notin SpawnedInto(mid, post) => post.isActive[i] = 0
    /\ \A c \in Slots \ (SpawnedInto(mid, post) \cup { i }) : post.cells[c] = mid.cells[c]
    /\ post.totalBirths = mid.totalBirths
    /\ post.events = mid.events

\* C24: in the tick about to run, an agent reached with 1.5 < mass < 10 is
\* removed, exactly min(5, floor(mass / 2)) children are spawned with the eight
\* genes it had, and no other step of its update runs.
C24_Fragmentation ==
    \A dt \in ColonyDts : \A i \in Slots :
        Fragments(BeforeCell(i, frameCount + 1, dt), i)
          => Dissolved(BeforeCell(i, frameCount + 1, dt),
                       processCell(BeforeCell(i, frameCount + 1, dt), i, dt), i)

C24_Reached ==
    \E dt \in ColonyDts : \E i \in Slots : Fragments(BeforeCell(i, frameCount + 1, dt), i)

----------------------------------------------------------------------------
(* Properties of the clusters of the colony pass                           *)

\* the members gathered around the seed cluster[1] are live, of the class of
\* the seed and within the search radius of it
Gathered(st, cluster) ==
    \A k \in 2 .. Len(cluster) :
        /\ st.isActive[cluster[k]] = 1
        /\ st.cells[cluster[k]].archIdx = st.cells[cluster[1]].archIdx
        /\ DistSq(st, cluster[k], getX(st, cluster[1]), getY(st, cluster[1]))
             <= (searchRadius(st) * PS) * (searchRadius(st) * PS)

\* the clusters the pass fuses: more than the threshold, gathered as above
ClustersSound(st) ==
    \A k \in 1 .. Len(ClustersOf(st)) :
        /\ Len(ClustersOf(st)[k]) > densityThreshold(st)
        /\ Gathered(st, ClustersOf(st)[k])

\* C25: in the colony pass of the tick about to run, every member of a
\* cluster that is fused is a live agent, has the class of the seed and lies
\* within the search radius of the seed (50, or 80 above 2000 agents), and
\* the cluster has more members than the threshold (15, or 5 above 2000).
C25_ClusterMembers ==
    \A dt \in SwarmDts :
        IsSwarmFrame(frameCount + 1) => ClustersSound(BeforeSwarm(frameCount + 1, dt))

----------------------------------------------------------------------------
(* Properties of the alliances                                             *)

\* the storage as step 7 of Engine.update finds it in the tick of frame f
BeforeAlliances(f, dt) == Swarmed(BeforeSwarm(f, dt), f)

\* the slots that hold alliance id a
Holders(ids, a) == { i \in Slots : ids[i] = a }

\* the alliance ids in use
IdsInUse(ids) == { ids[i] : i \in Slots } \ { -1 }

\* the holders H of an id are a seed (the first of them in slot order, the
\* order of the pass) and two members added to it: three
\* agents live with mass > 2 at the pass, the two within 400 of the seed and
\* with |dSPD| + |dAGG| + |dPHO| < 0.3 against it
Triplet(mid, post, H) ==
    /\ Cardinality(H) = 3
    /\ \A h \in H : /\ mid.isActive[h] = 1
                    /\ mid.cells[h].mass > 2 * ES
                    /\ post.isActive[h] = 1
    /\ \E s \in H : (\A h \in H : s <= h) /\ \A h \in H \ { s } :
          /\ DistSq(mid, h, getX(mid, s), getY(mid, s)) < (400 * PS) * (400 * PS)
          /\ Abs(mid.cells[h].genome[gSPD] - mid.cells[s].genome[gSPD])
               + Abs(mid.cells[h].genome[gAGG] - mid.cells[s].genome[gAGG])
               + Abs(mid.cells[h].genome[gPHO] - mid.cells[s].genome[gPHO]) < 30

\* what an alliance pass leaves: every id in use is positive and held by such
\* a triplet; every other slot holds -1
PassSound(mid, post) ==
    \A a \in IdsInUse(post.allianceId) :
        a > 0 /\ Triplet(mid, post, Holders(post.allianceId, a))

----------------------------------------------------------------------------
(* Properties of the fusion of an alliance                                 *)

\* a triplet of total mass above 100 is replaced by one super-colony at its
\* centroid with energy 5000 and the genes of its most energetic member, and
\* a fusion event is emitted
FusedAway(mid, post, members) ==
    /\ \A k \in 1 .. 3 : post.isActive[members[k]] = 0
    /\ post.activeCount = mid.activeCount - 2
    /\ \E i \in SpawnedInto(mid, post) :
          /\ post.isActive[i] = 1
          /\ post.cells[i].energy = 5000 * ES
          /\ post.cells[i].x = Rs(SeqSum([ k \in 1 .. 3 |-> mid.cells[members[k]].x ]), 3)
          /\ post.cells[i].y = Rs(SeqSum([ k \in 1 .. 3 |-> mid.cells[members[k]].y ]), 3)
          /\ post.cells[i].genome = mid.cells[MostEnergetic(mid, members)].genome
    /\ Cardinality(SpawnedInto(mid, post)) = 1
    /\ EventsOf(post.events, "fusion") = EventsOf(mid.events, "fusion") + 1

\* a triplet of total mass up to 100 stays, and an alliance event of count 3
\* is emitted
KeptAllied(mid, post, members) ==
    /\ \A k \in 1 .. 3 : post.isActive[members[k]] = 1
    /\ post.activeCount = mid.activeCount
    /\ \E k \in 1 .. Len(post.events) :
          post.events[k].type = "alliance" /\ post.events[k].b = 3

\* the one triplet of the colonies of these runs, when the pass finds three
TripletOutcome(mid, post, colonies) ==
    (Len(colonies) = 3
     /\ \A k \in 2 .. 3 :
           /\ DistSq(mid, colonies[k], getX(mid, colonies[1]), getY(mid, colonies[1]))
                < (400 * PS) * (400 * PS)
           /\ Affinity(mid.cells[colonies[k]].genome, mid.cells[colonies[1]].genome) < 30)
    => IF MassOf(mid, colonies) > 100 * ES
       THEN FusedAway(mid, post, colonies)
       ELSE KeptAllied(mid, post, colonies)

\* C27: in the alliance pass of the tick about to run, a triplet of total mass
\* above 100 is removed and replaced by one super-colony at its centroid with
\* energy 5000 and the genome of its most energetic member, with a fusion
\* event; a triplet of total mass up to 100 is kept, with an alliance event of
\* count 3; also when the store is full when the pass runs.
C27_TripletOutcome ==
    \A dt \in FusionDts :
        IsAllianceFrame(frameCount + 1)
          => TripletOutcome(BeforeAlliances(frameCount + 1, dt),
                            updateAlliances(BeforeAlliances(frameCount + 1, dt)),
                            Colonies(BeforeAlliances(frameCount + 1, dt), 0))

----------------------------------------------------------------------------
(* Properties of the absorption                                            *)

\* the slots of a query result, slot i left out
Others(found, i) == { found[k] : k \in 1 .. Len(found) } \ { i }

\* the slots the query of slot i hands to the callback, i left out
Seen(mid, i) ==
    Others(gridQuery(mid.grid, getX(mid, i), getY(mid, i),
                     mid.cells[i].genome[gVIS] * PS), i)

\* the live neighbours the update of slot i absorbs
Absorbed(mid, i, dt) ==
    { n \in Seen(mid, i) :
        mid.isActive[n] = 1 /\ Sensed(mid, i, mid.cells[i], dt).st.isActive[n] = 0 }

\* the energy the update of slot i writes back, when it is the local energy
\* of processCell alone
LocalWritten(mid, i, dt) ==
    IF Ready(mid, i, mid.cells[i], dt).energy > REPRO_ENERGY * ES
    THEN Ready(mid, i, mid.cells[i], dt).energy - 80 * ES
    ELSE Ready(mid, i, mid.cells[i], dt).energy

\* slot i is updated with live neighbours only, steals from none, is in no
\* alliance, and absorbs at least one
AbsorbCase(mid, i, dt) ==
    /\ Evolves(mid, i)
    /\ mid.cells[i].genome[gAGG] <= 50
    /\ mid.allianceId[i] = -1
    /\ \A n \in Seen(mid, i) : mid.isActive[n] = 1
    /\ Absorbed(mid, i, dt) # {}
    /\ LocalWritten(mid, i, dt) > 0

SumOver(S, f) == SeqSum([ k \in 1 .. Cardinality(S) |-> f[SortBy(S, [ j \in Slots |-> j ])[k]] ])

\* the absorbed are removed, their mass is added to the mass of slot i, the
\* energy written back holds half the energy snapshot for each of them, and
\* an absorption event carries the mass of each
AbsorbOutcome(mid, post, i, dt) ==
    /\ \A n \in Absorbed(mid, i, dt) :
          /\ Sensed(mid, i, mid.cells[i], dt).st.cells[n] = ZeroCell
          /\ \E k \in 1 .. Len(post.events) :
                post.events[k].type = "absorption" /\ post.events[k].a = mid.cells[n].mass
    /\ post.cells[i].mass
         = mid.cells[i].mass
           + SumOver(Absorbed(mid, i, dt), [ n \in Slots |-> mid.cells[n].mass ])
    /\ post.cells[i].energy
         = LocalWritten(mid, i, dt)
           + Cardinality(Absorbed(mid, i, dt)) * Rs(Thermo(mid.cells[i], dt), 2)
    /\ EventsOf(post.events, "absorption")
         = EventsOf(mid.events, "absorption") + Cardinality(Absorbed(mid, i, dt))

\* C28: in the tick about to run, when the update of agent i absorbs
\* neighbours, each of them is removed, the mass of i grows by their masses,
\* the energy of i as written back at the end of its update includes 0.5 times
\* its energy snapshot for each, and an absorption event carrying the mass of
\* each is emitted.
C28_Absorption ==
    \A dt \in FusionDts : \A i \in Slots :
        AbsorbCase(BeforeCell(i, frameCount + 1, dt), i, dt)
          => AbsorbOutcome(BeforeCell(i, frameCount + 1, dt),
                           processCell(BeforeCell(i, frameCount + 1, dt), i, dt), i, dt)

C28_Reached ==
    \E dt \in FusionDts : \E i \in Slots :
        AbsorbCase(BeforeCell(i, frameCount + 1, dt), i, dt)

----------------------------------------------------------------------------
(* Properties of the mass steal                                            *)

\* slot i with its mass raised by k steals
Fed(mid, i, k, dt) == [ mid EXCEPT !.cells[i].mass = @ + k * StealAmount(dt) ]

\* the neighbours the test of the steal picks for slot i
Targets(mid, i, seen) == { n \in seen : Steals(mid, i, n, mid.cells[i].genome[gAGG]) }

\* the update of slot i steals from its targets, the live neighbour j among
\* them, and from no other neighbour, absorbs nobody, and writes its energy
\* back
StealCase(mid, i, j, dt) ==
    /\ Evolves(mid, i)
    /\ mid.isActive[j] = 1
    /\ Steals(mid, i, j, mid.cells[i].genome[gAGG])
    /\ \E seen \in { Seen(mid, i) } :
          /\ j \in seen
          /\ \A n \in seen \ Targets(mid, i, seen) :
                ~Steals(Fed(mid, i, Cardinality(Targets(mid, i, seen)), dt), i, n,
                        mid.cells[i].genome[gAGG])
          /\ \E after \in { Sensed(mid, i, mid.cells[i], dt).st.isActive } :
                \A n \in seen : after[n] = mid.isActive[n]
    /\ LocalWritten(mid, i, dt) > 0

\* the number of steals of the update of slot i
StealCount(mid, i) == Cardinality(Targets(mid, i, Seen(mid, i)))

\* 1.5 * dt has gone from the mass of j to the mass of i, and the mass of i
\* has grown by what its targets have lost
MassMoved(mid, post, i, j, dt) ==
    /\ post.cells[j].mass = mid.cells[j].mass - Rs(1500 * dt, 1000)
    /\ post.cells[i].mass = mid.cells[i].mass + StealCount(mid, i) * Rs(1500 * dt, 1000)
    /\ post.cells[i].mass - mid.cells[i].mass
         = SumOver(Targets(mid, i, Seen(mid, i)),
                   [ n \in Slots |-> mid.cells[n].mass - post.cells[n].mass ])

\* the energy written back holds the gain of 15 * dt of each steal
GainWritten(mid, post, i, dt) ==
    post.cells[i].energy
        = LocalWritten(mid, i, dt) + StealCount(mid, i) * Rs(15000 * dt, 1000)

\* the steals of the update of slot i move the mass and write the gain
StealOutcome(mid, i, dt) ==
    \A j \in Slots \ { i } :
        StealCase(mid, i, j, dt)
            => \E post \in { processCell(mid, i, dt) } :
                  /\ MassMoved(mid, post, i, j, dt)
                  /\ GainWritten(mid, post, i, dt)

\* C29: in the tick about to run, when the mass steal fires for agent i on
\* its neighbour j, 1.5 * dt goes from the mass of j to the mass of i, the
\* masses of the two together are unchanged, and the energy of i as written
\* back at the end of its update includes the gain of 15 * dt
C29_MassSteal ==
    \A dt \in ColonyDts : \A i \in Slots :
        \E mid \in { BeforeCell(i, frameCount + 1, dt) } : StealOutcome(mid, i, dt)

\* the part of C29 on the masses alone
C29_Masses ==
    \A dt \in ColonyDts : \A i \in Slots :
        \E mid \in { BeforeCell(i, frameCount + 1, dt) } :
            \A j \in Slots \ { i } :
                StealCase(mid, i, j, dt)
                    => \E post \in { processCell(mid, i, dt) } : MassMoved(mid, post, i, j, dt)

----------------------------------------------------------------------------
(* Properties of the assimilation event                                    *)

\* the update of slot i drains the live neighbour j, whose mass is not below
\* 0.1, by one steal, and the drain pushes it below 0.1
DrainCase(mid, post, i, j, dt) ==
    /\ Evolves(mid, i)
    /\ mid.isActive[j] = 1
    /\ mid.cells[i].genome[gAGG] > 50
    /\ ~AreAllies(mid, i, j)
    /\ mid.cells[j].mass >= 100
    /\ mid.cells[j].mass - Rs(1500 * dt, 1000) < 100
    /\ post.isActive[j] = 1
    /\ post.cells[j].mass = mid.cells[j].mass - Rs(1500 * dt, 1000)

\* an assimilation event of the update names the classes of i and of j
Assimilated(mid, post, i, j) ==
    /\ EventsOf(post.events, "assimilation") > EventsOf(mid.events, "assimilation")
    /\ \E k \in 1 .. Len(post.events) :
          /\ post.events[k].type = "assimilation"
          /\ post.events[k].a = getDominantArchetype(getGenome(mid, i))
          /\ post.events[k].b = getDominantArchetype(getGenome(mid, j))

\* C30: in the tick about to run, whenever the drain of a mass steal of agent
\* i pushes the mass of its neighbour j below 0.1, the update of i emits an
\* assimilation event that names the class of the predator and the class of
\* the prey (the event precedes the transfer of the mass in the callback).
C30_Assimilation ==
    \A dt \in ColonyDts : \A i \in Slots :
        \E mid \in { BeforeCell(i, frameCount + 1, dt) } :
            \E post \in { processCell(mid, i, dt) } :
                \A j \in Slots \ { i } :
                    DrainCase(mid, post, i, j, dt) => Assimilated(mid, post, i, j)

\* no handler emits an assimilation event
C30_NeverEmitted == EventsOf(events, "assimilation") = 0

----------------------------------------------------------------------------
(* Properties of the alliance cooperation                                  *)

\* the energy one share moves
ShareAmount(dt) == Rs(10 * ES * dt, 1000)

\* the live allies under 50 energy among the neighbours of slot i
Needy(mid, i) ==
    { n \in Seen(mid, i) :
        mid.isActive[n] = 1 /\ AreAllies(mid, i, n) /\ mid.cells[n].energy < 50 * ES }

\* the update of slot i changes its energy by its thermodynamics alone,
\* shares left aside
Quiet(mid, i, dt) ==
    /\ Evolves(mid, i)
    /\ Thermo(mid.cells[i], dt) > 0
    /\ Thermo(mid.cells[i], dt) <= REPRO_ENERGY * ES
    /\ Ready(mid, i, mid.cells[i], dt).energy = Sensed(mid, i, mid.cells[i], dt).energy

\* the update of slot i shares with its ally j: the energy of i stays above
\* 100 through all its shares, and j is under 50
ShareCase(mid, i, j, dt) ==
    /\ mid.isActive[i] = 1
    /\ mid.isActive[j] = 1
    /\ AreAllies(mid, i, j)
    /\ mid.cells[j].energy < 50 * ES
    /\ j \in Needy(mid, i)
    /\ Thermo(mid.cells[i], dt) - Cardinality(Needy(mid, i)) * ShareAmount(dt) > 100 * ES
    /\ Quiet(mid, i, dt)

\* 10 * dt has gone from the energy of i to the energy of j
EnergyMoved(mid, post, i, j, dt) ==
    /\ post.cells[j].energy = mid.cells[j].energy + ShareAmount(dt)
    /\ post.cells[i].energy
         = Thermo(mid.cells[i], dt) - Cardinality(Needy(mid, i)) * ShareAmount(dt)

\* the allies that share with slot j in the tick of frame f
Givers(j, f, dt) ==
    { i \in Slots \ { j } :
        isActive[i] = 1 /\ allianceId[i] # -1 /\ allianceId[i] = allianceId[j]
        /\ \E mid \in { BeforeCell(i, f, dt) } : ShareCase(mid, i, j, dt) }

\* slot j, which gives nothing, ends the tick with the energy of its own
\* thermodynamics and one share of each giver
EnergyKept(j, f, dt, after) ==
    (\E mid \in { BeforeCell(j, f, dt) } : Quiet(mid, j, dt) /\ Needy(mid, j) = {})
        => after[j].energy
             = Thermo(cells[j], dt) + Cardinality(Givers(j, f, dt)) * ShareAmount(dt)

\* the shares of the update of slot i move the energy
ShareOutcome(mid, i, dt) ==
    \A j \in Slots \ { i } :
        ShareCase(mid, i, j, dt)
            => \E post \in { processCell(mid, i, dt) } : EnergyMoved(mid, post, i, j, dt)

\* the part of C31 on the transfer: in the tick about to run, the update of
\* agent i moves 10 * dt of energy to each ally j under 50 it shares with
C31_Moved ==
    \A dt \in PactDts : \A i \in Slots :
        (isActive[i] = 1 /\ allianceId[i] # -1)
            => \E mid \in { BeforeCell(i, frameCount + 1, dt) } : ShareOutcome(mid, i, dt)

\* C31: when agent i and its neighbour j share an alliance id, the energy of
\* i is above 100 and the energy of j is below 50, the update of i moves
\* 10 * dt of energy from i to j, and j holds the energy it has received at
\* the end of the tick, whether its index is below or above the index of i.
C31_Cooperation ==
    [][ \A dt \in PactDts :
          (lastOp'.op = "update" /\ lastOp'.arg = << dt >>)
              => \A j \in Slots :
                    (isActive[j] = 1 /\ allianceId[j] # -1 /\ isActive'[j] = 1
                     /\ cells[j].energy < 50 * ES
                     /\ Givers(j, frameCount + 1, dt) # {})
                        => /\ \A i \in Givers(j, frameCount + 1, dt) :
                                 \E mid \in { BeforeCell(i, frameCount + 1, dt) } :
                                     ShareOutcome(mid, i, dt)
                           /\ EnergyKept(j, frameCount + 1, dt, cells') ]_vars

\* the same for the givers of a lower index than j alone
C31_FromBelow ==
    [][ \A dt \in PactDts :
          (lastOp'.op = "update" /\ lastOp'.arg = << dt >>)
              => \A j \in Slots :
                    (isActive[j] = 1 /\ allianceId[j] # -1 /\ isActive'[j] = 1
                     /\ cells[j].energy < 50 * ES
                     /\ Givers(j, frameCount + 1, dt) # {}
                     /\ \A i \in Givers(j, frameCount + 1, dt) : i < j)
                        => EnergyKept(j, frameCount + 1, dt, cells') ]_vars

----------------------------------------------------------------------------
(* Properties of the locomotion                                            *)

\* the slots removed between two storages
Gone(pre, post) == { n \in Slots : pre.isActive[n] = 1 /\ post.isActive[n] = 0 }

\* a flee target is there: the agent neither gains energy nor removes anybody
FleesOnly(cx, r) ==
    cx.fleeTarget # -1 => (r.energy = cx.energy /\ Gone(cx.st, r.st) = {})

\* no flee target and a hunt target within reach: the agent gains 30 energy
\* and the target is removed; out of reach, nothing is gained or removed
HuntsAndEats(cx, r, i, x, y) ==
    (cx.fleeTarget = -1 /\ cx.bestTarget # -1)
        => IF DistSq(cx.st, cx.bestTarget, x, y)
                < (cx.st.cells[i].genome[gSIZ] + cx.st.cells[cx.bestTarget].genome[gSIZ])
                  * (cx.st.cells[i].genome[gSIZ] + cx.st.cells[cx.bestTarget].genome[gSIZ])
           THEN r.energy = cx.energy + 30 * ES /\ r.st.isActive[cx.bestTarget] = 0
           ELSE r.energy = cx.energy /\ Gone(cx.st, r.st) = {}

\* slot t is a live agent within the vision radius VIS * 100 of (x, y)
InSight(st, t, x, y, vision) ==
    /\ st.isActive[t] = 1
    /\ DistSq(st, t, x, y) <= (vision * PS) * (vision * PS)

\* the targets are live agents within the vision radius
TargetsInSight(cx, x, y, vision) ==
    /\ cx.fleeTarget # -1 => InSight(cx.st, cx.fleeTarget, x, y, vision)
    /\ cx.bestTarget # -1 => InSight(cx.st, cx.bestTarget, x, y, vision)

\* the part of C32 on the priority: in the tick about to run, an agent with a
\* flee target only flees, and an agent with a hunt target alone eats it when
\* it is within (own SIZ + target SIZ) * 10, for 30 energy
C32_Priority ==
    \A dt \in ColonyDts : \A i \in Slots :
        \E mid \in { BeforeCell(i, frameCount + 1, dt) } :
            Evolves(mid, i)
                => \E cx \in { Sensed(mid, i, mid.cells[i], dt) } :
                   \E r \in { Ready(mid, i, mid.cells[i], dt) } :
                       /\ FleesOnly(cx, r)
                       /\ HuntsAndEats(cx, r, i, mid.cells[i].x, mid.cells[i].y)

\* C32: in the tick about to run, an agent with a flee target only flees; a
\* hunt is pursued only when there is no flee target, and a hunter within
\* (own SIZ + target SIZ) * 10 of its target gains 30 energy and the target is
\* removed; the hunt and flee targets are live agents within the vision radius
\* VIS * 100 of the agent.
C32_Locomotion ==
    \A dt \in ColonyDts : \A i \in Slots :
        \E mid \in { BeforeCell(i, frameCount + 1, dt) } :
            Evolves(mid, i)
                => \E cx \in { Sensed(mid, i, mid.cells[i], dt) } :
                   \E r \in { Ready(mid, i, mid.cells[i], dt) } :
                       /\ FleesOnly(cx, r)
                       /\ HuntsAndEats(cx, r, i, mid.cells[i].x, mid.cells[i].y)
                       /\ TargetsInSight(cx, mid.cells[i].x, mid.cells[i].y,
                                         mid.cells[i].genome[gVIS])

----------------------------------------------------------------------------
(* Properties of the spatial index                                         *)

\* the number of places of the flat array that hold slot i
Places(flat, i) == Cardinality({ k \in 1 .. Len(flat) : flat[k] = i })

\* the position of a cell lies in the world rectangle [0, W] x [0, W]
InWorld(c) == c.x >= 0 /\ c.x <= worldSize * PS /\ c.y >= 0 /\ c.y <= worldSize * PS

\* the buckets are 1 / 100 of the world wide
BucketHolds(b, c) ==
    /\ b >= 0
    /\ c.x * GRID_RESOLUTION >= (b % GRID_RESOLUTION) * worldSize * PS
    /\ c.x * GRID_RESOLUTION < ((b % GRID_RESOLUTION) + 1) * worldSize * PS
    /\ c.y * GRID_RESOLUTION >= (b \div GRID_RESOLUTION) * worldSize * PS
    /\ c.y * GRID_RESOLUTION < ((b \div GRID_RESOLUTION) + 1) * worldSize * PS

\* the active agents in the world are filed once, in the bucket of their
\* position
FiledInside(g) ==
    \A i \in Slots :
        (isActive[i] = 1 /\ InWorld(cells[i]))
            => Places(g.grid, i) = 1 /\ BucketHolds(g.bucket[i], cells[i])

\* the agents out of the world, and the empty slots, are not filed
NotFiledOutside(g) ==
    \A i \in Slots :
        (isActive[i] = 0 \/ ~InWorld(cells[i])) => Places(g.grid, i) = 0

\* the centres and radii of the queries
QueryPoints == { 0, 10000, 19900, 20000 }
QueryRadii == { 0, 100, 500 }

\* a query visits once every filed agent whose position is in its square
VisitsSquare(g) ==
    \A cx \in QueryPoints, cy \in EdgeRows, r \in QueryRadii :
        \A i \in Slots :
            (Places(g.grid, i) > 0
             /\ cells[i].x >= cx - r /\ cells[i].x <= cx + r
             /\ cells[i].y >= cy - r /\ cells[i].y <= cy + r)
                => Places(gridQuery(g, cx, cy, r), i) = 1

\* the part of C33 on the agents out of the world and on the query
C33_Query ==
    \E g \in { gridUpdate(cells, isActive) } : NotFiledOutside(g) /\ VisitsSquare(g)

\* C33: after a rebuild of the spatial index on the stored positions, every
\* active agent whose position lies in [0, W] x [0, W] is stored exactly once
\* in the flat index array, in the bucket of its position, the agents outside
\* the world are not stored, and a query visits exactly once every stored
\* agent whose position lies in the square [cx - r, cx + r] x [cy - r, cy + r].
C33_Index ==
    \E g \in { gridUpdate(cells, isActive) } :
        FiledInside(g) /\ NotFiledOutside(g) /\ VisitsSquare(g)

----------------------------------------------------------------------------
(* Properties of the boundary                                              *)

\* C34: in the store a tick leaves to the host and to the next tick, the
\* position of every active agent lies within [0, W] on both axes: an agent
\* that has moved below 0 or above W has been wrapped to the opposite edge.
C34_Boundary ==
    lastOp.op = "update" => \A i \in Slots : isActive[i] = 1 => InWorld(cells[i])

\* the wrapped position is in the buffer the tick has written, which the swap
\* leaves behind
C34_WrappedBehind ==
    lastOp.op = "update" => \A i \in Slots : isActive[i] = 1 => InWorld(nextCells[i])

----------------------------------------------------------------------------
(* Properties of identify                                                  *)

\* the sum of the squared gene differences, in hundredths squared
SumSq(g, p) == SeqSum([ k \in 1 .. 8 |-> (g[k] - p[k]) * (g[k] - p[k]) ])

\* sqrt(sumSq) / sqrt(8) < 0.05
Close(g, p) == SumSq(g, p) < 8 * 5 * 5

\* prototype k of the list is at the smallest distance from g
Nearest(list, g, k) ==
    \A j \in 1 .. Len(list) :
        SumSq(g, list[k].representativeDNA) <= SumSq(g, list[j].representativeDNA)

\* the prototypes and ids of the list are in the new list as they were
PrototypesKept(list, new) ==
    /\ Len(new) >= Len(list)
    /\ \A k \in 1 .. Len(list) :
          /\ new[k].representativeDNA = list[k].representativeDNA
          /\ new[k].id = list[k].id

\* identify has counted g in species k, at the smallest distance, and in no
\* other
CountedIn(list, new, g, ret, k) ==
    /\ Nearest(list, g, k)
    /\ ret = list[k].id
    /\ Len(new) = Len(list)
    /\ \A j \in 1 .. Len(list) :
          new[j].population = list[j].population + (IF j = k THEN 1 ELSE 0)

\* identify has added one species with prototype g and population 1
FoundedOne(list, new, g, ret) ==
    /\ Len(new) = Len(list) + 1
    /\ new[Len(new)].representativeDNA = g
    /\ new[Len(new)].population = 1
    /\ new[Len(new)].id = ret
    /\ \A j \in 1 .. Len(list) : new[j] = list[j] /\ list[j].id # ret

\* C35: identify(genome) returns the id of the prototype at the smallest
\* normalized distance when that distance is below 0.05, and increments the
\* population of that species alone; otherwise it adds exactly one species
\* with the genome as prototype and population 1 and returns its new id; the
\* prototypes of the list are never modified.
C35_Identify ==
    [][ lastOp'.op = "identify"
          => /\ PrototypesKept(speciesList, speciesList')
             /\ IF \E k \in 1 .. Len(speciesList) :
                      Close(lastOp'.arg[1], speciesList[k].representativeDNA)
                THEN \E k \in 1 .. Len(speciesList) :
                        CountedIn(speciesList, speciesList', lastOp'.arg[1], lastOp'.ret, k)
                ELSE FoundedOne(speciesList, speciesList', lastOp'.arg[1], lastOp'.ret) ]_vars

\* identify has counted a genome in the second of two prototypes under the
\* threshold, the nearer one
C35_Witness ==
    /\ lastOp.op = "identify"
    /\ lastOp.arg[1] = GenomeAverage
    /\ Len(speciesList) >= 2
    /\ speciesList[1].representativeDNA = GenomeKin
    /\ speciesList[2].representativeDNA = GenomeCousin
    /\ lastOp.ret = speciesList[2].id
    /\ speciesList[2].population >= 2

----------------------------------------------------------------------------
(* Properties of the alliance protection                                   *)

\* the live allies of slot i
AlliesOf(mid, i) ==
    { n \in Slots \ { i } : mid.isActive[n] = 1 /\ AreAllies(mid, i, n) }

\* the update of slot i has removed no ally and taken mass from none
AlliesSpared(mid, post, i) ==
    \A n \in AlliesOf(mid, i) :
        post.isActive[n] = 1 /\ post.cells[n].mass >= mid.cells[n].mass

\* C36: in the tick about to run, the update of an agent absorbs, drains and
\* eats no live agent that shares its alliance id: the agents it removes or
\* drains are not of its alliance.
C36_AlliesSpared ==
    \A dt \in PactDts : \A i \in Slots :
        (isActive[i] = 1 /\ allianceId[i] # -1)
            => \E mid \in { BeforeCell(i, frameCount + 1, dt) } :
                   mid.isActive[i] = 1
                       => \E post \in { processCell(mid, i, dt) } : AlliesSpared(mid, post, i)

\* the part of C36 on the absorption and the steal: what the callback of the
\* query leaves
C36_CallbackSpares ==
    \A dt \in PactDts : \A i \in Slots :
        (isActive[i] = 1 /\ allianceId[i] # -1)
            => \E mid \in { BeforeCell(i, frameCount + 1, dt) } :
                   Evolves(mid, i)
                       => \E cx \in { Sensed(mid, i, mid.cells[i], dt) } :
                              AlliesSpared(mid, cx.st, i)

----------------------------------------------------------------------------
(* The mass across the swap of the buffers                                  *)

\* the storage with the grid as the tick about to run builds it
Gridded == [ Store EXCEPT !.grid = gridUpdate(cells, isActive) ]

\* no query of the tick about to run hands slot i to a callback, and the
\* query of slot i hands it nobody
Alone(st, i) ==
    /\ Seen(st, i) = {}
    /\ \A j \in Slots \ { i } : st.isActive[j] = 1 => i \notin Seen(st, j)

\* slot i holds a colony (too heavy to fragment) through a tick that is no
\* swarm and no alliance frame
ColonyRests(i) ==
    /\ lastOp'.op = "update"
    /\ frameCount' = frameCount + 1
    /\ ~IsSwarmFrame(frameCount') /\ ~IsAllianceFrame(frameCount')
    /\ isActive[i] = 1 /\ isActive'[i] = 1
    /\ cells[i].mass >= 10 * ES
    /\ totalDeaths' = totalDeaths
    /\ Alone(Gridded, i)

\* C37: the mass of a live agent read at a tick boundary is its mass at the
\* previous boundary, adjusted only by the absorptions, steals and fusions
\* applied to it in between: a colony that takes part in no interaction
\* through a tick has the same mass after it.
C37_MassPersists ==
    [][ \A i \in Slots : ColonyRests(i) => cells'[i].mass = cells[i].mass ]_vars

\* what the code keeps: the mass stays in the buffer the swap puts behind
C37_MassBehind ==
    [][ \A i \in Slots : ColonyRests(i) => nextCells'[i].mass = cells[i].mass ]_vars

----------------------------------------------------------------------------
(* The clusters of one colony pass                                          *)

Members(cluster) == { cluster[k] : k \in 1 .. Len(cluster) }

\* no slot is in two clusters, none is twice in one
Disjoint(clusters) ==
    /\ \A a, b \in 1 .. Len(clusters) :
           a # b => Members(clusters[a]) \cap Members(clusters[b]) = {}
    /\ \A a \in 1 .. Len(clusters) : Cardinality(Members(clusters[a])) = Len(clusters[a])

ColonyEvents(evs) == Cardinality({ k \in 1 .. Len(evs) : evs[k].type = "colony" })

\* the pass over the storage pre spawns one colony for each of its clusters and
\* removes every live member of them
PassFuses(pre, post, clusters) ==
    /\ ColonyEvents(post.events) = ColonyEvents(pre.events) + Len(clusters)
    /\ post.activeCount
         = pre.activeCount + Len(clusters)
           - Cardinality({ n \in UNION { Members(clusters[a]) : a \in 1 .. Len(clusters) } :
                             pre.isActive[n] = 1 })

\* C38: the clusters selected in one colony pass are pairwise disjoint, and
\* the pass spawns as many colonies as it fuses clusters, each live member
\* removed once.
C38_Clusters ==
    \A dt \in PactDts :
        IsSwarmFrame(frameCount + 1)
        => \E pre \in { BeforeSwarm(frameCount + 1, dt) } :
             \E clusters \in { ClustersOf(pre) } :
               /\ Disjoint(clusters)
               /\ PassFuses(pre, checkSwarmDensity(pre), clusters)

\* the pass about to run fuses two clusters, and a slot outside the second
\* shares a grid cell with its seed
C38_Witness ==
    /\ IsSwarmFrame(frameCount + 1)
    /\ \E dt \in PactDts : \E pre \in { BeforeSwarm(frameCount + 1, dt) } :
         \E clusters \in { ClustersOf(pre) } :
           /\ Len(clusters) = 2
           /\ \E n \in Members(clusters[1]) :
                n \in Others(gridQuery(pre.grid, getX(pre, clusters[2][1]),
                                       getY(pre, clusters[2][1]), searchRadius(pre) * PS),
                             clusters[2][1])

----------------------------------------------------------------------------
(* The protocol of the page and its worker                                  *)

\* C39: under every interleaving of user actions, animation frames and
\* replies, the main thread posts a message after "init" only once it has
\* handled the worker's "ready", and no handler of the worker reads the
\* engine before it is made.
C39_Protocol ==
    /\ [][ posted' > posted => isWorkerReady ]_vars
    /\ [](~threw)
    /\ [](\A k \in 1 .. Len(toWorker) : toWorker[k].type # "init" => engine = "Engine")

\* the worker has handled a spawn, an update and an inspection that found a
\* cell, the page has handled the replies
C39_Witness ==
    /\ isWorkerReady /\ isSimulationRunning
    /\ lastOp.op = "update"
    /\ activeCount > 0
    /\ inspectedCell # NoCell
    /\ toWorker = << >>
=============================================================================
